---- MODULE Spec2Model ----
(***************************************************************************)
(* Model of the split-or-die VS Code extension: the exclusion-aware        *)
(* workspace scanner (bulk scan with a generation token, incremental       *)
(* single-file check, exclusion toggles on persisted path lists).          *)
(*                                                                         *)
(* Strings are TLA+ strings handled character by character through Len,    *)
(* SubSeq and \o, so that path and extension normalisation is computed as  *)
(* the code computes it.                                                   *)
(***************************************************************************)
EXTENDS Integers, Sequences, FiniteSets, TLC

VARIABLES
    platform,         \* process.platform: "posix" or "win32"
    excludedFolders,  \* workspaceState[STATE_EXCLUDED_FOLDERS]: list of strings
    excludedFiles,    \* workspaceState[STATE_EXCLUDED_FILES]: list of strings
    lastOp,           \* the last list operation: [kind, path]
    beforeLast,       \* [folders, files] as they were before lastOp
    call,             \* the last direct call of a function: [fn, arguments]
    result,           \* what that call returned
    scanToken,        \* the generation token of activate()
    scanEntries,      \* the result set: file -> ScanEntry or NoEntry
    diagnostics,      \* the diagnostic collection: file -> diagnostic or NoEntry
    posted,           \* the last step called viewProvider.postState()
    cfg,              \* the splitOrDie configuration
    fs,               \* the content of each workspace file
    rootOpen,         \* vscode.workspace.workspaceFolders holds the root
    scans,            \* the runs of runWorkspaceScan, by run id
    checks,           \* incremental checks suspended on their stat
    pending           \* handlers suspended before their runWorkspaceScan call

pathVars == <<platform, excludedFolders, excludedFiles, lastOp, beforeLast, call, result>>

scanVars == <<scanToken, scanEntries, diagnostics, posted, cfg, fs, rootOpen, scans, checks,
              pending>>

vars == <<pathVars, scanVars>>

(***************************************************************************)
(* Strings                                                                 *)
(***************************************************************************)
Char(s, i) == SubSeq(s, i, i)

Min(a, b) == IF a < b THEN a ELSE b

Max(a, b) == IF a > b THEN a ELSE b

StartsWith(s, prefix) ==
    /\ Len(prefix) <= Len(s)
    /\ SubSeq(s, 1, Len(prefix)) = prefix

\* the characters of the model, in the order of their character codes
CharOrder ==
    "\t\n *,-./0123456789:<>ABCDEFGHIJKLMNOPQRSTUVWXYZ\\_abcdefghijklmnopqrstuvwxyz{}"

CharSet == {Char(CharOrder, i) : i \in 1..Len(CharOrder)}

\* the rank of each character in the order of the character codes
CharCodeTable == [c \in CharSet |-> CHOOSE i \in 1..Len(CharOrder) : Char(CharOrder, i) = c]

CharCode(c) == CharCodeTable[c]

UpperCaseLetters == "ABCDEFGHIJKLMNOPQRSTUVWXYZ"

LowerCaseLetters == "abcdefghijklmnopqrstuvwxyz"

LowerCaseTable ==
    [c \in CharSet |->
        IF \E i \in 1..26 : Char(UpperCaseLetters, i) = c
        THEN Char(LowerCaseLetters, CHOOSE i \in 1..26 : Char(UpperCaseLetters, i) = c)
        ELSE c]

\* String.prototype.toLowerCase on one character
LowerChar(c) == LowerCaseTable[c]

RECURSIVE toLowerCase(_)
toLowerCase(s) ==
    IF Len(s) = 0 THEN ""
    ELSE LowerChar(Char(s, 1)) \o toLowerCase(SubSeq(s, 2, Len(s)))

\* the elements of a list as a set
Range(list) == {list[i] : i \in 1..Len(list)}

(***************************************************************************)
(* node:path, as far as normalizeFsPath uses it                            *)
(***************************************************************************)
\* path.sep
PathSep == IF platform = "win32" THEN "\\" ELSE "/"

\* isPathSeparator (win32) / isPosixPathSeparator (posix)
IsPathSeparator(c) == IF platform = "win32" THEN c \in {"/", "\\"} ELSE c = "/"

\* the segments of a path between separators, empty ones included
RECURSIVE SplitPath(_, _, _)
SplitPath(s, i, cur) ==
    IF i > Len(s) THEN <<cur>>
    ELSE IF IsPathSeparator(Char(s, i)) THEN <<cur>> \o SplitPath(s, i + 1, "")
    ELSE SplitPath(s, i + 1, cur \o Char(s, i))

\* normalizeString: drops empty and "." segments, lets ".." remove the
\* segment before it; above the top ".." is kept only if allowAboveRoot
RECURSIVE ResolveSegments(_, _, _)
ResolveSegments(segs, acc, allowAboveRoot) ==
    IF Len(segs) = 0 THEN acc
    ELSE LET seg == Head(segs)
             rest == Tail(segs)
         IN  IF seg = "" \/ seg = "." THEN ResolveSegments(rest, acc, allowAboveRoot)
             ELSE IF seg = ".." THEN
                 IF Len(acc) > 0 /\ acc[Len(acc)] # ".."
                 THEN ResolveSegments(rest, SubSeq(acc, 1, Len(acc) - 1), allowAboveRoot)
                 ELSE IF allowAboveRoot
                 THEN ResolveSegments(rest, Append(acc, ".."), allowAboveRoot)
                 ELSE ResolveSegments(rest, acc, allowAboveRoot)
             ELSE ResolveSegments(rest, Append(acc, seg), allowAboveRoot)

RECURSIVE JoinSegments(_, _)
JoinSegments(segs, sep) ==
    IF Len(segs) = 0 THEN ""
    ELSE IF Len(segs) = 1 THEN segs[1]
    ELSE segs[1] \o sep \o JoinSegments(Tail(segs), sep)

normalizeString(s, allowAboveRoot) ==
    JoinSegments(ResolveSegments(SplitPath(s, 1, ""), <<>>, allowAboveRoot), PathSep)

\* path.posix.normalize: a trailing separator is preserved
PosixNormalize(p) ==
    IF Len(p) = 0 THEN "."
    ELSE LET isAbsolute == Char(p, 1) = "/"
             trailingSeparator == Char(p, Len(p)) = "/"
             body == normalizeString(p, ~isAbsolute)
         IN  IF Len(body) = 0
             THEN (IF isAbsolute THEN "/" ELSE IF trailingSeparator THEN "./" ELSE ".")
             ELSE (IF isAbsolute THEN "/" ELSE "") \o body
                      \o (IF trailingSeparator THEN "/" ELSE "")

\* path.win32.normalize for paths without a drive letter or UNC prefix
Win32Normalize(p) ==
    IF Len(p) = 0 THEN "."
    ELSE IF Len(p) = 1 THEN (IF Char(p, 1) = "/" THEN "\\" ELSE p)
    ELSE LET isAbsolute == IsPathSeparator(Char(p, 1))
             rootEnd == IF isAbsolute THEN 1 ELSE 0
             tail0 == normalizeString(SubSeq(p, rootEnd + 1, Len(p)), ~isAbsolute)
             tail1 == IF Len(tail0) = 0 /\ ~isAbsolute THEN "." ELSE tail0
             tail == IF Len(tail1) > 0 /\ IsPathSeparator(Char(p, Len(p)))
                     THEN tail1 \o "\\" ELSE tail1
         IN  IF isAbsolute THEN "\\" \o tail ELSE tail

\* path.normalize
PathNormalize(p) == IF platform = "win32" THEN Win32Normalize(p) ELSE PosixNormalize(p)

(***************************************************************************)
(* state.ts: the persisted excluded-folder and excluded-file lists         *)
(***************************************************************************)
\* a normal form that always ends with the separator
normalizeFsPath_withSeparator(fsPath) ==
    LET normalized == PathNormalize(fsPath) \o PathSep
    IN  IF platform = "win32" THEN toLowerCase(normalized) ELSE normalized

normalizeFsPath(fsPath) ==
    LET normalized == PathNormalize(fsPath)
    IN  IF platform = "win32" THEN toLowerCase(normalized) ELSE normalized

\* addUniquePath without its test
addUniquePath_always(entries, fsPath) == Append(entries, fsPath)

\* addUniquePath comparing the literal strings instead of the normalized forms
addUniquePath_literal(entries, fsPath) ==
    IF \E i \in 1..Len(entries) : entries[i] = fsPath
    THEN entries
    ELSE Append(entries, fsPath)

addUniquePath(entries, fsPath) ==
    LET normalized == normalizeFsPath(fsPath)
    IN  IF \E i \in 1..Len(entries) : normalizeFsPath(entries[i]) = normalized
        THEN entries
        ELSE Append(entries, fsPath)

\* vscode.Uri.parse(value).fsPath for a file URI with an empty authority and
\* no percent-escapes: the path after "file://", with the platform's separator
RECURSIVE ToPlatformSeparators(_)
ToPlatformSeparators(s) ==
    IF Len(s) = 0 THEN ""
    ELSE (IF Char(s, 1) = "/" THEN PathSep ELSE Char(s, 1))
             \o ToPlatformSeparators(SubSeq(s, 2, Len(s)))

UriFsPath(value) == ToPlatformSeparators(SubSeq(value, 8, Len(value)))

resolveFsPath(value) ==
    IF Len(value) >= 5 /\ toLowerCase(SubSeq(value, 1, 5)) = "file:"
    THEN UriFsPath(value)
    ELSE value

\* the filter with its test inverted (=== for !==)
RECURSIVE FilterOutPath_inverted(_, _)
FilterOutPath_inverted(entries, targetPath) ==
    IF Len(entries) = 0 THEN <<>>
    ELSE (IF normalizeFsPath(Head(entries)) = normalizeFsPath(targetPath)
          THEN <<Head(entries)>> ELSE <<>>) \o FilterOutPath_inverted(Tail(entries), targetPath)

\* entries.filter((entry) => normalizeFsPath(entry) !== normalizeFsPath(targetPath))
RECURSIVE FilterOutPath(_, _)
FilterOutPath(entries, targetPath) ==
    IF Len(entries) = 0 THEN <<>>
    ELSE (IF normalizeFsPath(Head(entries)) # normalizeFsPath(targetPath)
          THEN <<Head(entries)>> ELSE <<>>) \o FilterOutPath(Tail(entries), targetPath)

removeExcludedPath(entries, uriValue) == FilterOutPath(entries, resolveFsPath(uriValue))

addExcludedFolder(folders, fsPath) == addUniquePath(folders, fsPath)

removeExcludedFolder(folders, uriValue) == removeExcludedPath(folders, uriValue)

addExcludedFile(files, fsPath) == addUniquePath(files, fsPath)

removeExcludedFile(files, uriValue) == removeExcludedPath(files, uriValue)

\* buildExclusionState: new Set(list.map(normalizeFsPath))
NormalizedSet(list) == {normalizeFsPath(list[i]) : i \in 1..Len(list)}

(***************************************************************************)
(* Constants of the extension                                              *)
(***************************************************************************)
DEFAULT_EXCLUDE_FOLDERS ==
    <<"node_modules", ".git", "dist", "build", ".svelte-kit", ".vite", "coverage",
      "__snapshots__", "paraglide">>

DEFAULT_EXCLUDE_GLOBS ==
    [i \in 1..Len(DEFAULT_EXCLUDE_FOLDERS) |-> "**/" \o DEFAULT_EXCLUDE_FOLDERS[i] \o "/**"]

DEFAULT_EXCLUDE_EXTENSIONS == <<"md", "txt", "yaml", "yml", "toml", "json">>

DEFAULT_SIZE_THRESHOLD_KB == 20

\* chunkSize in scanWorkspace
chunkSize == 50

(***************************************************************************)
(* Extension strings                                                       *)
(***************************************************************************)
\* the characters String.prototype.trim removes, as far as the inputs have them
IsWhitespace(c) == c \in {" ", "\t", "\n"}

RECURSIVE TrimStart(_)
TrimStart(s) ==
    IF Len(s) > 0 /\ IsWhitespace(Char(s, 1)) THEN TrimStart(SubSeq(s, 2, Len(s))) ELSE s

RECURSIVE TrimEnd(_)
TrimEnd(s) ==
    IF Len(s) > 0 /\ IsWhitespace(Char(s, Len(s))) THEN TrimEnd(SubSeq(s, 1, Len(s) - 1)) ELSE s

Trim(s) == TrimEnd(TrimStart(s))

\* replace(/^\./, ''): one leading dot is removed
StripLeadingDot(s) == IF Len(s) > 0 /\ Char(s, 1) = "." THEN SubSeq(s, 2, Len(s)) ELSE s

\* the characters of [a-z0-9._-], in the order of their character codes
ExtensionAlphabet == "-.0123456789_abcdefghijklmnopqrstuvwxyz"

ExtensionCharSet == {Char(ExtensionAlphabet, i) : i \in 1..Len(ExtensionAlphabet)}

\* /^[a-z0-9._-]+$/.test(s)
IsExtensionString(s) == Len(s) > 0 /\ \A i \in 1..Len(s) : Char(s, i) \in ExtensionCharSet

\* the value null
Null == "<null>"

\* a normalization that keeps the letter case
normalizeExtensionInput_caseSensitive(value) ==
    LET trimmed == StripLeadingDot(Trim(value))
    IN  IF Len(trimmed) = 0 THEN Null
        ELSE IF ~IsExtensionString(trimmed) THEN Null
        ELSE trimmed

normalizeExtensionInput(value) ==
    LET trimmed == toLowerCase(StripLeadingDot(Trim(value)))
    IN  IF Len(trimmed) = 0 THEN Null
        ELSE IF ~IsExtensionString(trimmed) THEN Null
        ELSE trimmed


\* a < b in the order of Array.prototype.sort without a comparator
RECURSIVE StringLess(_, _)
StringLess(a, b) ==
    IF Len(b) = 0 THEN FALSE
    ELSE IF Len(a) = 0 THEN TRUE
    ELSE IF Char(a, 1) = Char(b, 1) THEN StringLess(SubSeq(a, 2, Len(a)), SubSeq(b, 2, Len(b)))
    ELSE CharCode(Char(a, 1)) < CharCode(Char(b, 1))

\* x put into an ascending list, before the first string greater than it
RECURSIVE InsertSorted(_, _)
InsertSorted(x, list) ==
    IF Len(list) = 0 THEN <<x>>
    ELSE IF StringLess(x, Head(list)) THEN <<x>> \o list
    ELSE <<Head(list)>> \o InsertSorted(x, Tail(list))

\* Array.prototype.sort without a comparator, on strings
RECURSIVE Sort(_)
Sort(list) == IF Len(list) = 0 THEN <<>> ELSE InsertSorted(Head(list), Sort(Tail(list)))

\* Array.from(set): the members in the order they were inserted
RECURSIVE InsertionOrder(_, _)
InsertionOrder(list, seen) ==
    IF Len(list) = 0 THEN <<>>
    ELSE IF Head(list) \in seen THEN InsertionOrder(Tail(list), seen)
    ELSE <<Head(list)>> \o InsertionOrder(Tail(list), seen \cup {Head(list)})

\* extensions.map((ext) => ext.trim().replace(/^\./, '').toLowerCase()).filter(Boolean)
RECURSIVE NormalizedExtensions(_)
NormalizedExtensions(extensions) ==
    IF Len(extensions) = 0 THEN <<>>
    ELSE LET ext == toLowerCase(StripLeadingDot(Trim(Head(extensions))))
         IN  (IF Len(ext) > 0 THEN <<ext>> ELSE <<>>) \o NormalizedExtensions(Tail(extensions))

normalizeExtensions(extensions) == Range(NormalizedExtensions(extensions))

\* a list in the order of insertion
normalizeExtensionList_unsorted(values) == InsertionOrder(NormalizedExtensions(values), {})

normalizeExtensionList(values) == Sort(InsertionOrder(NormalizedExtensions(values), {}))

\* the index of the last occurrence of character c in s, 0 if there is none
RECURSIVE LastIndexOf(_, _)
LastIndexOf(s, c) ==
    IF Len(s) = 0 THEN 0
    ELSE IF Char(s, Len(s)) = c THEN Len(s)
    ELSE LastIndexOf(SubSeq(s, 1, Len(s) - 1), c)

\* path.basename of a path that does not end in a separator
Basename(filePath) ==
    LET segs == SplitPath(filePath, 1, "")
    IN  segs[Len(segs)]

\* path.extname: from the last dot of the last segment, "" when there is no
\* dot, or the only dot is the first character, or the segment is ".."
Extname(filePath) ==
    LET base == Basename(filePath)
        dot == LastIndexOf(base, ".")
    IN  IF dot <= 1 \/ base = ".." THEN "" ELSE SubSeq(base, dot, Len(base))

\* shouldSkipExtension as extension.ts defines it for its own handlers
shouldSkipExtensionInExtensionTs(filePath, excluded) ==
    LET ext == StripLeadingDot(toLowerCase(Extname(filePath)))
    IN  IF Len(ext) = 0 THEN FALSE ELSE ext \in excluded

\* shouldSkipExtension of the extensions module
shouldSkipExtension(filePath, excluded) ==
    LET ext == StripLeadingDot(toLowerCase(Extname(filePath)))
    IN  IF Len(ext) = 0
        THEN LET base == toLowerCase(Basename(filePath))
             IN  IF StartsWith(base, ".") /\ Len(base) > 1
                 THEN SubSeq(base, 2, Len(base)) \in excluded
                 ELSE FALSE
        ELSE ext \in excluded

(***************************************************************************)
(* Exclusion state                                                         *)
(***************************************************************************)
\* the value undefined
Undefined == "<undefined>"

\* Array.from(new Set(list)): duplicates removed, first occurrences kept
RECURSIVE Unique(_, _)
Unique(list, seen) ==
    IF Len(list) = 0 THEN <<>>
    ELSE IF Head(list) \in seen THEN Unique(Tail(list), seen)
    ELSE <<Head(list)>> \o Unique(Tail(list), seen \cup {Head(list)})

\* patterns.map((pattern) => pattern.trim()).filter(Boolean)
RECURSIVE TrimmedNonEmpty(_)
TrimmedNonEmpty(patterns) ==
    IF Len(patterns) = 0 THEN <<>>
    ELSE (IF Len(Trim(Head(patterns))) > 0 THEN <<Trim(Head(patterns))>> ELSE <<>>)
             \o TrimmedNonEmpty(Tail(patterns))

\* a compilation that keeps the duplicates
buildExcludeGlob_duplicates(patterns) ==
    LET unique == TrimmedNonEmpty(patterns)
    IN  IF Len(unique) = 0 THEN Undefined
        ELSE IF Len(unique) = 1 THEN unique[1]
        ELSE "{" \o JoinSegments(unique, ",") \o "}"

buildExcludeGlob(patterns) ==
    LET unique == Unique(TrimmedNonEmpty(patterns), {})
    IN  IF Len(unique) = 0 THEN Undefined
        ELSE IF Len(unique) = 1 THEN unique[1]
        ELSE "{" \o JoinSegments(unique, ",") \o "}"

\* config.excludeGlobs: the setting is left at its default
ConfiguredGlobs == DEFAULT_EXCLUDE_GLOBS

\* buildExcludeGlob([...DEFAULT_EXCLUDE_GLOBS, ...config.excludeGlobs])
CompiledExcludeGlob == buildExcludeGlob(DEFAULT_EXCLUDE_GLOBS \o ConfiguredGlobs)

\* an exclusion state whose glob is compiled from the configured globs alone
buildExclusionState_configuredOnly(folders, files, config) ==
    [excludeExtensions |-> normalizeExtensions(config.excludeExtensions),
     excludedFolderSet |-> NormalizedSet(folders),
     excludedFileSet   |-> NormalizedSet(files),
     excludedFolders   |-> folders,
     excludedFiles     |-> files,
     excludeGlob       |-> buildExcludeGlob(config.excludeGlobs)]

buildExclusionState(folders, files, config) ==
    [excludeExtensions |-> normalizeExtensions(config.excludeExtensions),
     excludedFolderSet |-> NormalizedSet(folders),
     excludedFileSet   |-> NormalizedSet(files),
     excludedFolders   |-> folders,
     excludedFiles     |-> files,
     excludeGlob       |-> IF config.excludeGlobs = ConfiguredGlobs THEN CompiledExcludeGlob
                           ELSE buildExcludeGlob(DEFAULT_EXCLUDE_GLOBS \o config.excludeGlobs)]

\* a folder test without the separator after the folder
isExplicitlyExcluded_prefix(filePath, exclusion) ==
    LET normalized == normalizeFsPath(filePath)
    IN  \/ normalized \in exclusion.excludedFileSet
        \/ \E folder \in exclusion.excludedFolderSet : StartsWith(normalized, folder)

isExplicitlyExcluded(filePath, exclusion) ==
    LET normalized == normalizeFsPath(filePath)
    IN  \/ normalized \in exclusion.excludedFileSet
        \/ \E folder \in exclusion.excludedFolderSet :
               \/ normalized = folder
               \/ StartsWith(normalized, folder \o PathSep)

(***************************************************************************)
(* The workspace, the file system and the configuration                    *)
(***************************************************************************)
\* the largest number of runWorkspaceScan calls in a behaviour
MaxScans == 2

\* the largest number of incremental checks suspended at the same time
MaxChecks == 1

\* the fsPath of the workspace root folder
Root == "/w"

\* the files under the root, by fsPath; uri.toString() is one-to-one with it
Files == {"/w/src/big.ts", "/w/dist/gen.ts"}

\* a saved document whose uri.scheme is not "file"
UntitledDoc == "untitled:Untitled-1"

Docs == Files \cup {UntitledDoc}

Scheme(doc) == IF doc \in Files THEN "file" ELSE "untitled"

\* file contents: the size in bytes and the number of line-feed bytes
Contents ==
    {[size |-> 20480, lf |-> 400], [size |-> 20481, lf |-> 400], [size |-> 25000, lf |-> 600]}

BoundaryContents == {[size |-> 20480, lf |-> 400], [size |-> 20481, lf |-> 400]}

\* the contents a file is saved with
ContentsOf(f) == IF f = "/w/src/big.ts" THEN BoundaryContents ELSE {[size |-> 25000, lf |-> 600]}

\* values of sizeThresholdKb written to the settings or sent by the webview
ThresholdInputs == {0, 20}

\* values sent by the webview with addExtension and removeExtension
ExtensionInputs == {"ts", ".TS ", "t s", " ."}

\* targets of the folder and file commands
FolderTargets == {"/w/src"}

FileTargets == {"/w/src/big.ts"}

\* uri strings the webview sends with removeFolder and removeFile
FolderUris == {"file:///w/src"}

FileUris == {"file:///w/src/big.ts"}

NoEntry == [none |-> TRUE]

EmptyMap == [f \in Files |-> NoEntry]

Keys(map) == {f \in Files : map[f] # NoEntry}

\* readConfig
readConfig ==
    [enabled |-> cfg.enabled,
     sizeThresholdKb |-> cfg.sizeThresholdKb,
     excludeGlobs |-> ConfiguredGlobs,
     excludeExtensions |-> cfg.excludeExtensions,
     runOnSave |-> cfg.runOnSave]

\* a threshold in bytes that takes the configured value as it is
ThresholdBytes_unclamped(config) == config.sizeThresholdKb * 1024

\* runWorkspaceScan: Math.max(1, config.sizeThresholdKb) * 1024
ThresholdBytes(config) == Max(1, config.sizeThresholdKb) * 1024

\* checkDocument: Math.max(1, config.sizeThresholdKb) * 1024
DocumentThresholdBytes(config) == Max(1, config.sizeThresholdKb) * 1024

\* vscode.workspace.getWorkspaceFolder(uri) finds an owning root
HasWorkspaceFolder(doc) == rootOpen /\ doc \in Files /\ StartsWith(doc, Root \o PathSep)

(***************************************************************************)
(* The host's findFiles                                                    *)
(***************************************************************************)
\* s has x as a substring
Contains(s, x) == \E i \in 1..(Len(s) - Len(x) + 1) : SubSeq(s, i, i + Len(x) - 1) = x

\* pattern is the glob, or one of the alternatives of its brace group
IsAlternative(pattern, glob) ==
    \/ glob = pattern
    \/ /\ Len(glob) >= 2 /\ Char(glob, 1) = "{" /\ Char(glob, Len(glob)) = "}"
       /\ \/ glob = "{" \o pattern \o "}"
          \/ StartsWith(glob, "{" \o pattern \o ",")
          \/ Contains(glob, "," \o pattern \o ",")
          \/ Contains(glob, "," \o pattern \o "}")

\* the folders above a file, relative to the root
FolderSegments(fsPath) ==
    LET segs == SplitPath(SubSeq(fsPath, Len(Root) + 2, Len(fsPath)), 1, "")
    IN  {segs[i] : i \in 1..(Len(segs) - 1)}

\* the glob has an alternative **/name/** for a folder called name above the file
GlobMatches(glob, fsPath) ==
    /\ glob # Undefined
    /\ \E name \in FolderSegments(fsPath) : IsAlternative("**/" \o name \o "/**", glob)

\* the files under the root that the compiled glob does not match
FilesFound == {f \in Files : ~GlobMatches(CompiledExcludeGlob, f)}

\* vscode.workspace.findFiles(new RelativePattern(folder, '**/*'), excludeGlob)
findFiles(excludeGlob) ==
    IF excludeGlob = CompiledExcludeGlob THEN FilesFound
    ELSE {f \in Files : ~GlobMatches(excludeGlob, f)}

(***************************************************************************)
(* Line counts and diagnostics                                             *)
(***************************************************************************)
\* the byte value the line counter looks for
LineFeed == 10

\* the bytes of a file, written as runs of equal bytes: a file of size bytes
\* that holds lf line feeds is its other bytes, then a carriage return when
\* it has line feeds and room for one, then its line feeds
FileData(content) ==
    LET cr == IF content.lf > 0 /\ content.size > content.lf THEN 1 ELSE 0
        runs == <<[byte |-> 97, count |-> content.size - content.lf - cr],
                  [byte |-> 13, count |-> cr],
                  [byte |-> LineFeed, count |-> content.lf]>>
    IN SelectSeq(runs, LAMBDA run : run.count > 0)

\* data.length
RECURSIVE DataLengthFrom(_, _)
DataLengthFrom(data, n) ==
    IF n > Len(data) THEN 0 ELSE data[n].count + DataLengthFrom(data, n + 1)

DataLength(data) == DataLengthFrom(data, 1)

\* for (const byte of data) { if (byte === 10) lines += 1 }, a run at a time
RECURSIVE ByteLoop(_, _, _)
ByteLoop(data, n, lines) ==
    IF n > Len(data) THEN lines
    ELSE ByteLoop(data, n + 1,
                  IF data[n].byte = LineFeed THEN lines + data[n].count
                  ELSE lines)

\* a line counter that starts from no line
countLinesOfData_fromZero(data) ==
    IF DataLength(data) = 0 THEN 0 ELSE ByteLoop(data, 1, 0)

\* countLines(data): 0 for no byte, else one more than the line feeds
countLinesOfData(data) ==
    IF DataLength(data) = 0 THEN 0 ELSE ByteLoop(data, 1, 1)

\* countLines over the bytes read from a file
countLines(content) == countLinesOfData(FileData(content))

\* document.lineCount of the saved document
DocumentLineCount(content) == content.lf + 1

\* an estimate that rounds down
estimateLines_floor(bytes) == Max(1, (bytes \div 2048) * 50)

\* estimateLines: Math.max(1, Math.round(((bytes / 1024) * 25) / 50) * 50)
estimateLines(bytes) == Max(1, ((bytes + 1024) \div 2048) * 50)

\* createDiagnostic: a warning whose message carries the size and the lines
createDiagnostic(sizeBytes, lineCount) == [size |-> sizeBytes, lineCount |-> lineCount]

ScanEntry(size, lineCount) == [size |-> size, lineCount |-> lineCount]

\* pruneExcludedEntries on the result set or on the diagnostics
pruneExcludedEntries(map, excludedExtensions) ==
    [f \in Files |-> IF map[f] # NoEntry /\ shouldSkipExtension(f, excludedExtensions)
                     THEN NoEntry ELSE map[f]]

(***************************************************************************)
(* runWorkspaceScan and scanWorkspace                                      *)
(***************************************************************************)
\* a run that has committed its entries and returned
Done(entries) == [pc |-> "done", thresholdBytes |-> 0, candidates |-> {}, entries |-> entries]

\* scanWorkspace up to its first await: the files that findFiles will return
\* and that pass the extension check and the exclusion predicate
Candidates(exclusion) ==
    {f \in findFiles(exclusion.excludeGlob) :
        /\ ~shouldSkipExtension(f, exclusion.excludeExtensions)
        /\ ~isExplicitlyExcluded(f, exclusion)}

\* a superseded run that has returned at `if (runId !== scanToken) return;`
Discarded == [pc |-> "discarded", thresholdBytes |-> 0, candidates |-> {}, entries |-> EmptyMap]

\* earlier runs keep no results once a newer run has started
Forget(runs) == [r \in 1..Len(runs) |->
                    IF runs[r].pc = "done" THEN Done(EmptyMap) ELSE runs[r]]

\* a run that takes a new token only when the extension is enabled
runWorkspaceScan_reuseToken(entriesNow, diagnosticsNow, postedNow) ==
    LET runId == scanToken + 1
        config == readConfig
    IN  IF ~config.enabled
        THEN /\ scanToken' = scanToken
             /\ diagnostics' = EmptyMap
             /\ scanEntries' = EmptyMap
             /\ posted' = TRUE
             /\ scans' = scans
        ELSE LET exclusion == buildExclusionState(excludedFolders, excludedFiles, config)
                 thresholdBytes == ThresholdBytes(config)
             IN  /\ scanToken' = runId
                 /\ diagnostics' = diagnosticsNow
                 /\ scanEntries' = entriesNow
                 /\ posted' = postedNow
                 /\ scans' = Append(Forget(scans),
                        IF ~rootOpen
                        THEN [pc |-> "ready", thresholdBytes |-> thresholdBytes,
                              candidates |-> {}, entries |-> EmptyMap]
                        ELSE [pc |-> "find", thresholdBytes |-> thresholdBytes,
                              candidates |-> Candidates(exclusion), entries |-> EmptyMap])

\* a run whose scanWorkspace looks for files without asking for the folders
runWorkspaceScan_noFolderCheck(entriesNow, diagnosticsNow, postedNow) ==
    LET runId == scanToken + 1
        config == readConfig
    IN  /\ scanToken' = runId
        /\ IF ~config.enabled
           THEN /\ diagnostics' = EmptyMap
                /\ scanEntries' = EmptyMap
                /\ posted' = TRUE
                /\ scans' = Append(Forget(scans), Done(EmptyMap))
           ELSE LET exclusion == buildExclusionState(excludedFolders, excludedFiles, config)
                    thresholdBytes == ThresholdBytes(config)
                IN  /\ diagnostics' = diagnosticsNow
                    /\ scanEntries' = entriesNow
                    /\ posted' = postedNow
                    /\ scans' = Append(Forget(scans),
                           [pc |-> "find", thresholdBytes |-> thresholdBytes,
                            candidates |-> Candidates(exclusion), entries |-> EmptyMap])

\* runWorkspaceScan up to its first await, called with the result set and the
\* diagnostics as the caller left them
runWorkspaceScan(entriesNow, diagnosticsNow, postedNow) ==
    LET runId == scanToken + 1
        config == readConfig
    IN  /\ scanToken' = runId
        /\ IF ~config.enabled
           THEN /\ diagnostics' = EmptyMap
                /\ scanEntries' = EmptyMap
                /\ posted' = TRUE
                /\ scans' = Append(Forget(scans), Done(EmptyMap))
           ELSE LET exclusion == buildExclusionState(excludedFolders, excludedFiles, config)
                    thresholdBytes == ThresholdBytes(config)
                IN  /\ diagnostics' = diagnosticsNow
                    /\ scanEntries' = entriesNow
                    /\ posted' = postedNow
                    /\ scans' = Append(Forget(scans),
                           IF ~rootOpen
                           THEN [pc |-> "ready", thresholdBytes |-> thresholdBytes,
                                 candidates |-> {}, entries |-> EmptyMap]
                           ELSE [pc |-> "find", thresholdBytes |-> thresholdBytes,
                                 candidates |-> Candidates(exclusion), entries |-> EmptyMap])

\* the number of runWorkspaceScan calls that handlers in flight will still make
PendingRuns ==
    pending.scan + pending.addExtension + pending.removeExtension + pending.updateThreshold

\* n more runs fit into the bound
RunsLeft(n) == scanToken + PendingRuns + n <= MaxScans

\* the command split-or-die.scanWorkspace
ScanCommand ==
    /\ RunsLeft(1)
    /\ runWorkspaceScan(scanEntries, diagnostics, FALSE)
    /\ UNCHANGED <<pathVars, cfg, fs, rootOpen, checks, pending>>

\* a handler resumes after its await and calls runWorkspaceScan: the folder and
\* file commands and messages, toggleExtension, and the configuration listener
StartPendingScan ==
    /\ pending.scan > 0
    /\ pending' = [pending EXCEPT !.scan = @ - 1]
    /\ runWorkspaceScan(scanEntries, diagnostics, FALSE)
    /\ UNCHANGED <<pathVars, cfg, fs, rootOpen, checks>>

\* a continuation that starts the run without clearing anything
AddExtensionContinue_keep ==
    /\ pending.addExtension > 0
    /\ pending' = [pending EXCEPT !.addExtension = @ - 1]
    /\ runWorkspaceScan(scanEntries, diagnostics, TRUE)
    /\ UNCHANGED <<pathVars, cfg, fs, rootOpen, checks>>

\* handleWebviewMessage resumes after addExcludedExtension: it clears and
\* prunes the result set and the diagnostics, posts, and starts a run
AddExtensionContinue ==
    /\ pending.addExtension > 0
    /\ pending' = [pending EXCEPT !.addExtension = @ - 1]
    /\ LET exclusion == buildExclusionState(excludedFolders, excludedFiles, readConfig)
       IN  runWorkspaceScan(pruneExcludedEntries(EmptyMap, exclusion.excludeExtensions),
                            pruneExcludedEntries(EmptyMap, exclusion.excludeExtensions), TRUE)
    /\ UNCHANGED <<pathVars, cfg, fs, rootOpen, checks>>

\* handleWebviewMessage resumes after removeExcludedExtension: it posts,
\* clears the result set and the diagnostics, and starts a run
RemoveExtensionContinue ==
    /\ pending.removeExtension > 0
    /\ pending' = [pending EXCEPT !.removeExtension = @ - 1]
    /\ runWorkspaceScan(EmptyMap, EmptyMap, TRUE)
    /\ UNCHANGED <<pathVars, cfg, fs, rootOpen, checks>>

\* handleWebviewMessage resumes after updateSizeThreshold: it clears the
\* result set and the diagnostics, posts, and starts a run
UpdateThresholdContinue ==
    /\ pending.updateThreshold > 0
    /\ pending' = [pending EXCEPT !.updateThreshold = @ - 1]
    /\ runWorkspaceScan(EmptyMap, EmptyMap, TRUE)
    /\ UNCHANGED <<pathVars, cfg, fs, rootOpen, checks>>

SetScan(r, rec) == scans' = [scans EXCEPT ![r] = rec]

\* findFiles returns; the first chunk's stats are issued, if there is a candidate
ScanFind(r) ==
    /\ scans[r].pc = "find"
    /\ SetScan(r, [scans[r] EXCEPT !.pc = IF scans[r].candidates = {} THEN "ready" ELSE "stat"])
    /\ posted' = FALSE
    /\ UNCHANGED <<pathVars, scanToken, scanEntries, diagnostics, cfg, fs, rootOpen, checks,
                   pending>>

\* the stats of the chunk return (safeStat gives null for those that failed);
\* the files larger than the threshold go on to have their lines counted
ScanStat(r) ==
    /\ scans[r].pc = "stat"
    /\ \E statOk \in SUBSET scans[r].candidates :
           LET oversized == {f \in statOk : fs[f].size > scans[r].thresholdBytes}
           IN  SetScan(r, [scans[r] EXCEPT
                   !.pc = IF oversized = {} THEN "ready" ELSE "read",
                   !.entries = [f \in Files |-> IF f \in oversized
                                                THEN ScanEntry(fs[f].size, 0)
                                                ELSE NoEntry]])
    /\ posted' = FALSE
    /\ UNCHANGED <<pathVars, scanToken, scanEntries, diagnostics, cfg, fs, rootOpen, checks,
                   pending>>

\* readLineCount returns for the oversized files: the counted lines, or null
\* and then the estimate from the size
ScanRead(r) ==
    /\ scans[r].pc = "read"
    /\ \E readOk \in SUBSET Keys(scans[r].entries) :
           SetScan(r, [scans[r] EXCEPT
               !.pc = "ready",
               !.entries = [f \in Files |->
                   IF scans[r].entries[f] = NoEntry THEN NoEntry
                   ELSE ScanEntry(scans[r].entries[f].size,
                                  IF f \in readOk THEN countLines(fs[f])
                                  ELSE estimateLines(scans[r].entries[f].size))]])
    /\ posted' = FALSE
    /\ UNCHANGED <<pathVars, scanToken, scanEntries, diagnostics, cfg, fs, rootOpen, checks,
                   pending>>

\* a guard that lets every run commit
IsCurrent_always(r) == r <= scanToken

\* the run can still commit: runId === scanToken
IsCurrent(r) == r = scanToken

\* a completion that waits until every earlier run has returned
ScanComplete_inOrder(r) ==
    /\ scans[r].pc = "ready"
    /\ \A earlier \in 1..(r - 1) : scans[earlier].pc \in {"done", "discarded"}
    /\ IF ~IsCurrent(r)
       THEN /\ SetScan(r, Discarded)
            /\ posted' = FALSE
            /\ UNCHANGED <<scanEntries, diagnostics>>
       ELSE /\ SetScan(r, Done(scans[r].entries))
            /\ scanEntries' = scans[r].entries
            /\ diagnostics' = [f \in Files |->
                   IF scans[r].entries[f] = NoEntry THEN NoEntry
                   ELSE createDiagnostic(scans[r].entries[f].size, scans[r].entries[f].lineCount)]
            /\ posted' = TRUE
    /\ UNCHANGED <<pathVars, scanToken, cfg, fs, rootOpen, checks, pending>>

\* a completion that commits whatever the token is
ScanComplete_always(r) ==
    /\ scans[r].pc = "ready"
    /\ SetScan(r, Done(scans[r].entries))
    /\ scanEntries' = scans[r].entries
    /\ diagnostics' = [f \in Files |->
           IF scans[r].entries[f] = NoEntry THEN NoEntry
           ELSE createDiagnostic(scans[r].entries[f].size, scans[r].entries[f].lineCount)]
    /\ posted' = TRUE
    /\ UNCHANGED <<pathVars, scanToken, cfg, fs, rootOpen, checks, pending>>

\* a commit that suspends between its clear and its inserts
ScanComplete_clearFirst(r) ==
    /\ scans[r].pc = "ready"
    /\ IF ~IsCurrent(r)
       THEN /\ SetScan(r, Discarded)
            /\ posted' = FALSE
            /\ UNCHANGED <<scanEntries, diagnostics>>
       ELSE IF scanEntries # EmptyMap \/ diagnostics # EmptyMap
       THEN /\ scanEntries' = EmptyMap
            /\ diagnostics' = EmptyMap
            /\ posted' = FALSE
            /\ UNCHANGED scans
       ELSE /\ SetScan(r, Done(scans[r].entries))
            /\ scanEntries' = scans[r].entries
            /\ diagnostics' = [f \in Files |->
                   IF scans[r].entries[f] = NoEntry THEN NoEntry
                   ELSE createDiagnostic(scans[r].entries[f].size, scans[r].entries[f].lineCount)]
            /\ posted' = TRUE
    /\ UNCHANGED <<pathVars, scanToken, cfg, fs, rootOpen, checks, pending>>

\* a commit that adds the run's entries to what is there
ScanComplete_merge(r) ==
    /\ scans[r].pc = "ready"
    /\ IF ~IsCurrent(r)
       THEN /\ SetScan(r, Discarded)
            /\ posted' = FALSE
            /\ UNCHANGED <<scanEntries, diagnostics>>
       ELSE /\ SetScan(r, Done(scans[r].entries))
            /\ scanEntries' = [f \in Files |->
                   IF scans[r].entries[f] = NoEntry THEN scanEntries[f] ELSE scans[r].entries[f]]
            /\ diagnostics' = [f \in Files |->
                   IF scans[r].entries[f] = NoEntry THEN diagnostics[f]
                   ELSE createDiagnostic(scans[r].entries[f].size, scans[r].entries[f].lineCount)]
            /\ posted' = TRUE
    /\ UNCHANGED <<pathVars, scanToken, cfg, fs, rootOpen, checks, pending>>

\* scanWorkspace has returned: a superseded run returns, the current one
\* replaces the result set and the diagnostics and posts
ScanComplete(r) ==
    /\ scans[r].pc = "ready"
    /\ IF ~IsCurrent(r)
       THEN /\ SetScan(r, Discarded)
            /\ posted' = FALSE
            /\ UNCHANGED <<scanEntries, diagnostics>>
       ELSE /\ SetScan(r, Done(scans[r].entries))
            /\ scanEntries' = scans[r].entries
            /\ diagnostics' = [f \in Files |->
                   IF scans[r].entries[f] = NoEntry THEN NoEntry
                   ELSE createDiagnostic(scans[r].entries[f].size, scans[r].entries[f].lineCount)]
            /\ posted' = TRUE
    /\ UNCHANGED <<pathVars, scanToken, cfg, fs, rootOpen, checks, pending>>

(***************************************************************************)
(* The save listener and checkDocument                                     *)
(***************************************************************************)
\* the sizeThresholdKb values a configuration snapshot can hold
ThresholdValues == ThresholdInputs \cup {Max(1, v) : v \in ThresholdInputs}
                       \cup {DEFAULT_SIZE_THRESHOLD_KB}

\* a suspended check: the document and the sizeThresholdKb of its config
CheckKeys == Files \X ThresholdValues

NoChecks == [k \in CheckKeys |-> 0]

RECURSIVE SumOver(_, _)
SumOver(bag, keys) ==
    IF keys = {} THEN 0
    ELSE LET k == CHOOSE x \in keys : TRUE
         IN  bag[k] + SumOver(bag, keys \ {k})

ChecksInFlight == SumOver(checks, CheckKeys)

\* a removal that leaves the diagnostic in place
DeleteEntry_entryOnly(doc) ==
    /\ scanEntries' = [scanEntries EXCEPT ![doc] = NoEntry]
    /\ diagnostics' = diagnostics

\* diagnostics.delete(document.uri); scanEntries.delete(uriKey)
DeleteEntry(doc) ==
    /\ scanEntries' = [scanEntries EXCEPT ![doc] = NoEntry]
    /\ diagnostics' = [diagnostics EXCEPT ![doc] = NoEntry]

\* a save listener that does not look at enable and runOnSave
SaveDocument_unguarded(doc) ==
    \E content \in ContentsOf(doc) :
        LET config == readConfig
            exclusion == buildExclusionState(excludedFolders, excludedFiles, config)
        IN  /\ fs' = IF doc \in Files THEN [fs EXCEPT ![doc] = content] ELSE fs
            /\ IF Scheme(doc) # "file" \/ ~HasWorkspaceFolder(doc)
               THEN /\ posted' = TRUE
                    /\ UNCHANGED <<scanEntries, diagnostics, checks>>
               ELSE IF \/ shouldSkipExtension(doc, exclusion.excludeExtensions)
                       \/ isExplicitlyExcluded(doc, exclusion)
               THEN /\ DeleteEntry(doc)
                    /\ posted' = TRUE
                    /\ UNCHANGED checks
               ELSE /\ ChecksInFlight < MaxChecks
                    /\ checks' = [checks EXCEPT ![<<doc, config.sizeThresholdKb>>] = @ + 1]
                    /\ posted' = FALSE
                    /\ UNCHANGED <<scanEntries, diagnostics>>
            /\ UNCHANGED <<pathVars, scanToken, cfg, rootOpen, scans, pending>>

\* onDidSaveTextDocument: the document has been written; checkDocument runs
\* up to its stat, or returns before it and the listener posts
SaveDocument(doc) ==
    \E content \in ContentsOf(doc) :
        LET config == readConfig
            exclusion == buildExclusionState(excludedFolders, excludedFiles, config)
        IN  /\ fs' = IF doc \in Files THEN [fs EXCEPT ![doc] = content] ELSE fs
            /\ IF ~config.enabled \/ ~config.runOnSave
               THEN /\ posted' = FALSE
                    /\ UNCHANGED <<scanEntries, diagnostics, checks>>
               ELSE IF Scheme(doc) # "file" \/ ~HasWorkspaceFolder(doc)
               THEN /\ posted' = TRUE
                    /\ UNCHANGED <<scanEntries, diagnostics, checks>>
               ELSE IF \/ shouldSkipExtension(doc, exclusion.excludeExtensions)
                       \/ isExplicitlyExcluded(doc, exclusion)
               THEN /\ DeleteEntry(doc)
                    /\ posted' = TRUE
                    /\ UNCHANGED checks
               ELSE /\ ChecksInFlight < MaxChecks
                    /\ checks' = [checks EXCEPT ![<<doc, config.sizeThresholdKb>>] = @ + 1]
                    /\ posted' = FALSE
                    /\ UNCHANGED <<scanEntries, diagnostics>>
            /\ UNCHANGED <<pathVars, scanToken, cfg, rootOpen, scans, pending>>

\* a check that takes a new generation when it applies its change
CheckStat_advancing(doc, kb) ==
    /\ checks[<<doc, kb>>] > 0
    /\ checks' = [checks EXCEPT ![<<doc, kb>>] = @ - 1]
    /\ \E statOk \in BOOLEAN :
           LET size == fs[doc].size
               thresholdBytes == DocumentThresholdBytes([sizeThresholdKb |-> kb])
           IN  IF ~statOk
               THEN UNCHANGED <<scanEntries, diagnostics, scanToken, scans>>
               ELSE IF size <= thresholdBytes
               THEN DeleteEntry(doc) /\ UNCHANGED <<scanToken, scans>>
               ELSE /\ diagnostics' = [diagnostics EXCEPT ![doc] =
                           createDiagnostic(size, DocumentLineCount(fs[doc]))]
                    /\ scanEntries' = [scanEntries EXCEPT ![doc] =
                           ScanEntry(size, DocumentLineCount(fs[doc]))]
                    /\ scanToken' = scanToken + 1
                    /\ scans' = Append(scans, Done(EmptyMap))
    /\ posted' = TRUE
    /\ UNCHANGED <<pathVars, cfg, fs, rootOpen, pending>>

\* a check that reports a size equal to the threshold
CheckStat_atThreshold(doc, kb) ==
    /\ checks[<<doc, kb>>] > 0
    /\ checks' = [checks EXCEPT ![<<doc, kb>>] = @ - 1]
    /\ \E statOk \in BOOLEAN :
           LET size == fs[doc].size
               thresholdBytes == DocumentThresholdBytes([sizeThresholdKb |-> kb])
           IN  IF ~statOk
               THEN UNCHANGED <<scanEntries, diagnostics>>
               ELSE IF size < thresholdBytes
               THEN DeleteEntry(doc)
               ELSE /\ diagnostics' = [diagnostics EXCEPT ![doc] =
                           createDiagnostic(size, DocumentLineCount(fs[doc]))]
                    /\ scanEntries' = [scanEntries EXCEPT ![doc] =
                           ScanEntry(size, DocumentLineCount(fs[doc]))]
    /\ posted' = TRUE
    /\ UNCHANGED <<pathVars, scanToken, cfg, fs, rootOpen, scans, pending>>

\* the stat of a suspended check returns: null, a size at or below the
\* threshold, or a larger one; then the listener posts
CheckStat(doc, kb) ==
    /\ checks[<<doc, kb>>] > 0
    /\ checks' = [checks EXCEPT ![<<doc, kb>>] = @ - 1]
    /\ \E statOk \in BOOLEAN :
           LET size == fs[doc].size
               thresholdBytes == DocumentThresholdBytes([sizeThresholdKb |-> kb])
           IN  IF ~statOk
               THEN UNCHANGED <<scanEntries, diagnostics>>
               ELSE IF size <= thresholdBytes
               THEN DeleteEntry(doc)
               ELSE /\ diagnostics' = [diagnostics EXCEPT ![doc] =
                           createDiagnostic(size, DocumentLineCount(fs[doc]))]
                    /\ scanEntries' = [scanEntries EXCEPT ![doc] =
                           ScanEntry(size, DocumentLineCount(fs[doc]))]
    /\ posted' = TRUE
    /\ UNCHANGED <<pathVars, scanToken, cfg, fs, rootOpen, scans, pending>>

(***************************************************************************)
(* Commands, webview messages and settings                                 *)
(***************************************************************************)
\* addExcludedExtension with config.get('excludeExtensions') = stored: the
\* list to store, or Null when nothing is stored
AddToStored(stored, value) ==
    LET normalized == normalizeExtensionInput(value)
        current == normalizeExtensionList(stored)
    IN  IF normalized = Null THEN Null
        ELSE IF normalized \in Range(current) THEN Null
        ELSE Sort(Append(current, normalized))

\* addExcludedExtension: the list to store, or Null when nothing is stored
addExcludedExtension(value) == AddToStored(cfg.excludeExtensions, value)

\* current.filter((ext) => ext !== normalized)
RECURSIVE FilterOutString(_, _)
FilterOutString(list, x) ==
    IF Len(list) = 0 THEN <<>>
    ELSE (IF Head(list) # x THEN <<Head(list)>> ELSE <<>>) \o FilterOutString(Tail(list), x)

\* removeExcludedExtension with config.get('excludeExtensions') = stored: the
\* list to store, or Null when nothing is stored
RemoveFromStored(stored, value) ==
    LET normalized == normalizeExtensionInput(value)
        current == normalizeExtensionList(stored)
    IN  IF normalized = Null THEN Null
        ELSE FilterOutString(current, normalized)

\* removeExcludedExtension: the list to store, or Null when nothing is stored
removeExcludedExtension(value) == RemoveFromStored(cfg.excludeExtensions, value)

\* config.update(key, value): the value is stored and, if it differs,
\* onDidChangeConfiguration will call runWorkspaceScan; then `more` further
\* handlers of kind `kind` are suspended
UpdateConfig(next, kind) ==
    LET events == IF next # cfg THEN 1 ELSE 0
    IN  /\ RunsLeft(events + 1)
        /\ cfg' = next
        /\ pending' = [[pending EXCEPT !.scan = @ + events] EXCEPT ![kind] = @ + 1]

\* a handler changes nothing but suspends before its runWorkspaceScan call
Suspend(kind) ==
    /\ RunsLeft(1)
    /\ pending' = [pending EXCEPT ![kind] = @ + 1]

HandlerFrame ==
    /\ posted' = FALSE
    /\ UNCHANGED <<platform, lastOp, beforeLast, call, result, scanToken, scanEntries,
                   diagnostics, fs, rootOpen, scans, checks>>

\* split-or-die.excludeFolder
ExcludeFolderCommand ==
    \E target \in FolderTargets :
        /\ Suspend("scan")
        /\ excludedFolders' = addExcludedFolder(excludedFolders, target)
        /\ HandlerFrame /\ UNCHANGED <<excludedFiles, cfg>>

\* split-or-die.excludeFile
ExcludeFileCommand ==
    \E target \in FileTargets :
        /\ Suspend("scan")
        /\ excludedFiles' = addExcludedFile(excludedFiles, target)
        /\ HandlerFrame /\ UNCHANGED <<excludedFolders, cfg>>

\* split-or-die.includeFolder
IncludeFolderCommand ==
    \E target \in FolderTargets :
        /\ Suspend("scan")
        /\ excludedFolders' = removeExcludedFolder(excludedFolders, target)
        /\ HandlerFrame /\ UNCHANGED <<excludedFiles, cfg>>

\* split-or-die.includeFile
IncludeFileCommand ==
    \E target \in FileTargets :
        /\ Suspend("scan")
        /\ excludedFiles' = removeExcludedFile(excludedFiles, target)
        /\ HandlerFrame /\ UNCHANGED <<excludedFolders, cfg>>

\* a folder toggle that excludes whatever the set holds
ToggledFolders_addOnly(folders, files, target) == addExcludedFolder(folders, target)

\* toggleFolder up to its first await: the folder list it stores
ToggledFolders(folders, files, target) ==
    LET exclusion == buildExclusionState(folders, files, readConfig)
    IN  IF normalizeFsPath(target) \in exclusion.excludedFolderSet
        THEN removeExcludedFolder(folders, target)
        ELSE addExcludedFolder(folders, target)

\* toggleFile up to its first await: the file list it stores
ToggledFiles(folders, files, target) ==
    LET exclusion == buildExclusionState(folders, files, readConfig)
    IN  IF normalizeFsPath(target) \in exclusion.excludedFileSet
        THEN removeExcludedFile(files, target)
        ELSE addExcludedFile(files, target)

\* split-or-die.toggleFolder
ToggleFolderCommand ==
    \E target \in FolderTargets :
        /\ Suspend("scan")
        /\ excludedFolders' = ToggledFolders(excludedFolders, excludedFiles, target)
        /\ HandlerFrame /\ UNCHANGED <<excludedFiles, cfg>>

\* split-or-die.toggleFile
ToggleFileCommand ==
    \E target \in FileTargets :
        /\ Suspend("scan")
        /\ excludedFiles' = ToggledFiles(excludedFolders, excludedFiles, target)
        /\ HandlerFrame /\ UNCHANGED <<excludedFolders, cfg>>

\* split-or-die.toggleExtension
ToggleExtensionCommand ==
    \E target \in FileTargets :
        LET extension == normalizeExtensionInput(Extname(target))
            exclusion == buildExclusionState(excludedFolders, excludedFiles, readConfig)
            next == IF extension \in exclusion.excludeExtensions
                    THEN removeExcludedExtension(extension)
                    ELSE addExcludedExtension(extension)
        IN  /\ RunsLeft(1)
            /\ extension # Null
            /\ IF next = Null
               THEN Suspend("scan") /\ UNCHANGED cfg
               ELSE UpdateConfig([cfg EXCEPT !.excludeExtensions = next], "scan")
            /\ HandlerFrame /\ UNCHANGED <<excludedFolders, excludedFiles>>

\* an addExtension handler without `if (!extension) return;`
AddExtensionWith_unchecked(value) ==
    LET next == addExcludedExtension(value)
    IN  /\ IF ~RunsLeft(1) THEN FALSE
           ELSE IF next = Null
           THEN Suspend("addExtension") /\ UNCHANGED cfg
           ELSE UpdateConfig([cfg EXCEPT !.excludeExtensions = next], "addExtension")
        /\ HandlerFrame /\ UNCHANGED <<excludedFolders, excludedFiles>>

\* webview message addExtension with message.value = value, up to its await
AddExtensionWith(value) ==
    LET extension == normalizeExtensionInput(value)
        next == addExcludedExtension(extension)
    IN  /\ IF extension = Null
           THEN UNCHANGED <<cfg, pending>>
           ELSE IF ~RunsLeft(1) THEN FALSE
           ELSE IF next = Null
           THEN Suspend("addExtension") /\ UNCHANGED cfg
           ELSE UpdateConfig([cfg EXCEPT !.excludeExtensions = next], "addExtension")
        /\ HandlerFrame /\ UNCHANGED <<excludedFolders, excludedFiles>>

\* webview message addExtension
AddExtensionMessage == \E value \in ExtensionInputs : AddExtensionWith(value)

\* webview message removeExtension with message.value = value, up to its await
RemoveExtensionWith(value) ==
    LET extension == normalizeExtensionInput(value)
        next == removeExcludedExtension(extension)
    IN  /\ IF extension = Null
           THEN UNCHANGED <<cfg, pending>>
           ELSE IF ~RunsLeft(1) THEN FALSE
           ELSE UpdateConfig([cfg EXCEPT !.excludeExtensions = next], "removeExtension")
        /\ HandlerFrame /\ UNCHANGED <<excludedFolders, excludedFiles>>

\* webview message removeExtension
RemoveExtensionMessage == \E value \in ExtensionInputs : RemoveExtensionWith(value)

\* webview message removeFolder
RemoveFolderMessage ==
    \E value \in FolderUris :
        /\ Suspend("scan")
        /\ excludedFolders' = removeExcludedFolder(excludedFolders, value)
        /\ HandlerFrame /\ UNCHANGED <<excludedFiles, cfg>>

\* webview message removeFile
RemoveFileMessage ==
    \E value \in FileUris :
        /\ Suspend("scan")
        /\ excludedFiles' = removeExcludedFile(excludedFiles, value)
        /\ HandlerFrame /\ UNCHANGED <<excludedFolders, cfg>>

\* webview message updateThreshold: updateSizeThreshold(Math.max(1, Math.round(next)))
UpdateThresholdMessage ==
    \E value \in ThresholdInputs :
        /\ RunsLeft(1)
        /\ UpdateConfig([cfg EXCEPT !.sizeThresholdKb = Max(1, value)], "updateThreshold")
        /\ HandlerFrame /\ UNCHANGED <<excludedFolders, excludedFiles>>

\* webview message ready
ReadyMessage ==
    /\ posted' = TRUE
    /\ UNCHANGED <<pathVars, scanToken, scanEntries, diagnostics, cfg, fs, rootOpen, scans,
                   checks, pending>>

\* the user edits a splitOrDie setting; the configuration listener will run
EditSettings ==
    /\ RunsLeft(1)
    /\ \E next \in {[cfg EXCEPT !.enabled = ~@], [cfg EXCEPT !.runOnSave = ~@]}
                       \cup {[cfg EXCEPT !.sizeThresholdKb = kb] : kb \in ThresholdInputs} :
           /\ next # cfg
           /\ cfg' = next
           /\ pending' = [pending EXCEPT !.scan = @ + 1]
           /\ HandlerFrame /\ UNCHANGED <<excludedFolders, excludedFiles>>

\* the workspace root is closed or opened
ChangeWorkspaceFolders ==
    /\ rootOpen' = ~rootOpen
    /\ posted' = FALSE
    /\ UNCHANGED <<pathVars, scanToken, scanEntries, diagnostics, cfg, fs, scans, checks,
                   pending>>

(***************************************************************************)
(* The extension as a state machine (specification Spec)                   *)
(***************************************************************************)
\* the state after activate(), before any event
InitScan ==
    /\ scanToken = 0
    /\ scanEntries = EmptyMap
    /\ diagnostics = EmptyMap
    /\ posted = FALSE
    /\ cfg = [enabled |-> TRUE, runOnSave |-> TRUE,
              sizeThresholdKb |-> DEFAULT_SIZE_THRESHOLD_KB,
              excludeExtensions |-> DEFAULT_EXCLUDE_EXTENSIONS]
    /\ fs \in {f \in [Files -> Contents] : \A x \in Files : f[x] \in ContentsOf(x)}
    /\ rootOpen = TRUE
    /\ scans = <<>>
    /\ checks = NoChecks
    /\ pending = [scan |-> 0, addExtension |-> 0, removeExtension |-> 0, updateThreshold |-> 0]

NoOp == [kind |-> "none", path |-> ""]

NoCall == [fn |-> "none"]

Init ==
    /\ platform = "posix"
    /\ excludedFolders = <<>>
    /\ excludedFiles = <<>>
    /\ lastOp = NoOp
    /\ beforeLast = [folders |-> <<>>, files |-> <<>>]
    /\ call = NoCall
    /\ result = Null
    /\ InitScan

Next ==
    \/ ScanCommand
    \/ StartPendingScan
    \/ AddExtensionContinue
    \/ RemoveExtensionContinue
    \/ UpdateThresholdContinue
    \/ \E r \in 1..Len(scans) : ScanFind(r)
    \/ \E r \in 1..Len(scans) : ScanStat(r)
    \/ \E r \in 1..Len(scans) : ScanRead(r)
    \/ \E r \in 1..Len(scans) : ScanComplete(r)
    \/ \E doc \in Docs : SaveDocument(doc)
    \/ \E k \in CheckKeys : CheckStat(k[1], k[2])
    \/ ExcludeFolderCommand
    \/ ExcludeFileCommand
    \/ IncludeFolderCommand
    \/ IncludeFileCommand
    \/ ToggleFolderCommand
    \/ ToggleFileCommand
    \/ ToggleExtensionCommand
    \/ AddExtensionMessage
    \/ RemoveExtensionMessage
    \/ RemoveFolderMessage
    \/ RemoveFileMessage
    \/ UpdateThresholdMessage
    \/ ReadyMessage
    \/ EditSettings
    \/ ChangeWorkspaceFolders

Spec == Init /\ [][Next]_vars

\* the next step of run r: the host answers its findFiles, its stats or its
\* reads, or the event loop resumes it after scanWorkspace
ScanStep(r) ==
    /\ r \in DOMAIN scans
    /\ \/ ScanFind(r)
       \/ ScanStat(r)
       \/ ScanRead(r)
       \/ ScanComplete(r)

\* the scan command, saves, toggles and configuration changes, with the runs
\* and the checks they start
NextLive ==
    \/ ScanCommand
    \/ StartPendingScan
    \/ \E r \in 1..Len(scans) : ScanFind(r)
    \/ \E r \in 1..Len(scans) : ScanStat(r)
    \/ \E r \in 1..Len(scans) : ScanRead(r)
    \/ \E r \in 1..Len(scans) : ScanComplete(r)
    \/ \E doc \in Docs : SaveDocument(doc)
    \/ \E k \in CheckKeys : CheckStat(k[1], k[2])
    \/ ToggleFolderCommand
    \/ ToggleFileCommand
    \/ ToggleExtensionCommand
    \/ EditSettings

\* every call a run awaits returns in the end, and the run is then resumed
SpecLive == Init /\ [][NextLive]_vars /\ \A r \in 1..MaxScans : WF_vars(ScanStep(r))

(***************************************************************************)
(* Bulk scans without incremental checks (specification SpecBulk)          *)
(***************************************************************************)
\* every operation but the save listener and the checks it suspends
NextBulk ==
    \/ ScanCommand
    \/ StartPendingScan
    \/ AddExtensionContinue
    \/ RemoveExtensionContinue
    \/ UpdateThresholdContinue
    \/ \E r \in 1..Len(scans) : ScanFind(r)
    \/ \E r \in 1..Len(scans) : ScanStat(r)
    \/ \E r \in 1..Len(scans) : ScanRead(r)
    \/ \E r \in 1..Len(scans) : ScanComplete(r)
    \/ ExcludeFolderCommand
    \/ ExcludeFileCommand
    \/ IncludeFolderCommand
    \/ IncludeFileCommand
    \/ ToggleFolderCommand
    \/ ToggleFileCommand
    \/ ToggleExtensionCommand
    \/ AddExtensionMessage
    \/ RemoveExtensionMessage
    \/ RemoveFolderMessage
    \/ RemoveFileMessage
    \/ UpdateThresholdMessage
    \/ ReadyMessage
    \/ EditSettings
    \/ ChangeWorkspaceFolders

SpecBulk == Init /\ [][NextBulk]_vars

(***************************************************************************)
(* The list operations as a state machine (specification SpecPaths)        *)
(***************************************************************************)
\* the path strings handed to the list operations
PathInputs == {"/a/b", "/a/b/", "/a/./b", "/A/b"}

\* removal requests also arrive from the webview as URI strings
RemoveInputs == PathInputs \cup {"file:///a/b"}

Lists == [folders |-> excludedFolders, files |-> excludedFiles]

Record(kind, p) ==
    /\ lastOp' = [kind |-> kind, path |-> p]
    /\ beforeLast' = Lists
    /\ UNCHANGED <<platform, call, result, scanVars>>

InitPaths ==
    /\ platform \in {"posix", "win32"}
    /\ excludedFolders = <<>>
    /\ excludedFiles = <<>>
    /\ lastOp = NoOp
    /\ beforeLast = [folders |-> <<>>, files |-> <<>>]
    /\ call = NoCall
    /\ result = Null
    /\ InitScan
    /\ fs["/w/src/big.ts"].size = 20481

AddFolder ==
    \E p \in PathInputs :
        /\ excludedFolders' = addExcludedFolder(excludedFolders, p)
        /\ UNCHANGED excludedFiles
        /\ Record("addFolder", p)

RemoveFolder ==
    \E p \in RemoveInputs :
        /\ excludedFolders' = removeExcludedFolder(excludedFolders, p)
        /\ UNCHANGED excludedFiles
        /\ Record("removeFolder", p)

AddFile ==
    \E p \in PathInputs :
        /\ excludedFiles' = addExcludedFile(excludedFiles, p)
        /\ UNCHANGED excludedFolders
        /\ Record("addFile", p)

RemoveFile ==
    \E p \in RemoveInputs :
        /\ excludedFiles' = removeExcludedFile(excludedFiles, p)
        /\ UNCHANGED excludedFolders
        /\ Record("removeFile", p)

NextPaths == AddFolder \/ RemoveFolder \/ AddFile \/ RemoveFile

SpecPaths == InitPaths /\ [][NextPaths]_vars


(***************************************************************************)
(* The functions called directly (specification SpecFn)                    *)
(***************************************************************************)
\* paths asked about, and the persisted lists they are asked against
QueryPaths ==
    {"/root/foo", "/root/foo/bar.ts", "/root/foo2/bar.ts", "/root/foo/../foo2/bar.ts",
     "/root/FOO/bar.ts"}

FolderLists ==
    {<<>>, <<"/root/foo">>, <<"/root/foo/">>, <<"/root/FOO">>, <<"/root/x", "/root/foo">>}

FileLists == {<<>>, <<"/root/foo2/bar.ts">>, <<"/root/foo/bar.ts">>}

\* one function is called at a time, from the state in which no call is
\* recorded
Returned(c, r) ==
    /\ call = NoCall
    /\ call' = c
    /\ result' = r
    /\ UNCHANGED <<platform, excludedFolders, excludedFiles, lastOp, beforeLast, scanVars>>

\* isExplicitlyExcluded(filePath, buildExclusionState(context, config))
CallIsExplicitlyExcluded ==
    \E filePath \in QueryPaths, folders \in FolderLists, files \in FileLists :
        Returned([fn |-> "isExplicitlyExcluded", filePath |-> filePath,
                  folders |-> folders, files |-> files],
                 isExplicitlyExcluded(filePath, buildExclusionState(folders, files, readConfig)))

\* spellings of folders and files handed to normalizeFsPath
PathSpellings == {"/a/b", "/a/b/", "/A/b", "/a/B/", "/a/c"}

\* normalizeFsPath on two spellings, as add, remove and buildExclusionState
\* call it on an entry and on a request
CallNormalizeFsPath ==
    \E a \in PathSpellings, b \in PathSpellings :
        Returned([fn |-> "normalizeFsPath", a |-> a, b |-> b],
                 <<normalizeFsPath(a), normalizeFsPath(b)>>)

\* extension strings as a user types them
ExtensionSpellings ==
    {".LOG ", "log", "LOG", " .Log\t", "", " ", ".", "..log", "l g", "lo*g", "a_b-c.1", "ts."}

CallNormalizeExtensionInput ==
    \E value \in ExtensionSpellings :
        Returned([fn |-> "normalizeExtensionInput", value |-> value],
                 normalizeExtensionInput(value))

\* files asked about, and normalized excluded-extension sets
SkipPaths ==
    {"/w/a.log", "/w/a.LOG", "/w/.gitignore", "/w/.GitIgnore", "/w/Makefile",
     "/w/dir.log/readme", "/w/x.tar.gz", "/w/.env.local"}

ExcludedSets == {{}, {"log"}, {"gitignore"}, {"gz", "local"}}

\* the two definitions of shouldSkipExtension in the repository
SkipDefinitions == {"extensions", "extension.ts"}

CallShouldSkipExtension ==
    \E filePath \in SkipPaths, excluded \in ExcludedSets, definition \in SkipDefinitions :
        Returned([fn |-> "shouldSkipExtension", filePath |-> filePath,
                  excluded |-> excluded, definition |-> definition],
                 IF definition = "extension.ts"
                 THEN shouldSkipExtensionInExtensionTs(filePath, excluded)
                 ELSE shouldSkipExtension(filePath, excluded))

\* paths that are normalized and whose normal form is normalized again
RenormalizedPaths ==
    {"", ".", "/", "/a/b", "/a/b/", "a//b", "/a/../b/", "../a/..", "./a/./B/", "/A/b/../C",
     "a\\B/c", "//a", "/.."}

\* normalizeFsPath(normalizeFsPath(fsPath)), with normalizeFsPath(fsPath)
CallNormalizeFsPathTwice ==
    \E fsPath \in RenormalizedPaths :
        Returned([fn |-> "normalizeFsPathTwice", fsPath |-> fsPath],
                 [once |-> normalizeFsPath(fsPath),
                  twice |-> normalizeFsPath(normalizeFsPath(fsPath))])

\* values of the excludeExtensions setting, as written by the extension or
\* by hand
ExtensionLists ==
    {<<>>, <<"md", ".TS ">>, <<"lo*g", "ts">>, <<"..log">>, <<"", " . ", "l g">>,
     <<"b", "a">>, <<"a", "b", "a">>, <<"B", ".a", "b ">>, <<"a_", "a-", "a.", "a0", "aa">>}

\* buildExclusionState(context, config).excludeExtensions
CallBuildExclusionState ==
    \E extensions \in ExtensionLists :
        Returned([fn |-> "buildExclusionState", extensions |-> extensions],
                 buildExclusionState(<<>>, <<>>,
                     [readConfig EXCEPT !.excludeExtensions = extensions]).excludeExtensions)

\* normalizeExtensionList on two lists
CallNormalizeExtensionList ==
    \E a \in ExtensionLists, b \in ExtensionLists :
        Returned([fn |-> "normalizeExtensionList", a |-> a, b |-> b],
                 [a |-> normalizeExtensionList(a), b |-> normalizeExtensionList(b)])

\* extensions that are added to and removed from a stored list
ToggledExtensions == {"a", " .A", "c", "md", "..log", "l g", ""}

\* what the setting holds after a call that had next to store
StoredAfter(stored, next) ==
    [updated |-> next # Null, stored |-> IF next = Null THEN stored ELSE next]

CallAddExcludedExtension ==
    \E stored \in ExtensionLists, value \in ToggledExtensions :
        Returned([fn |-> "addExcludedExtension", stored |-> stored, value |-> value],
                 StoredAfter(stored, AddToStored(stored, value)))

CallRemoveExcludedExtension ==
    \E stored \in ExtensionLists, value \in ToggledExtensions :
        Returned([fn |-> "removeExcludedExtension", stored |-> stored, value |-> value],
                 StoredAfter(stored, RemoveFromStored(stored, value)))

\* default globs and configured globs that buildExclusionState puts together
DefaultGlobLists == {<<>>, <<"**/d/**">>, <<"**/d/**", "**/e/**">>}

ConfiguredGlobLists ==
    {<<>>, <<"", "  ">>, <<" **/d/** ">>, <<"*.y ", "*.x">>, <<" *.x", "**/d/**", "", "*.x">>}

\* buildExcludeGlob([...defaults, ...config.excludeGlobs])
CallBuildExcludeGlob ==
    \E defaults \in DefaultGlobLists, configured \in ConfiguredGlobLists :
        Returned([fn |-> "buildExcludeGlob", defaults |-> defaults, configured |-> configured],
                 buildExcludeGlob(defaults \o configured))

\* the outcome of a host call that throws
Thrown == [kind |-> "thrown"]

\* the null that safeStat returns
NullStat == [kind |-> "null"]

\* vscode.workspace.fs.stat(uri) in a file system where the stat of some
\* files fails
HostStat(uri, world) ==
    IF uri \in world.statFails THEN Thrown
    ELSE [kind |-> "stat", size |-> world.contents[uri].size]

\* a stat wrapper without the catch
safeStat_rethrow(uri, world) == HostStat(uri, world)

\* safeStat: the stat, or null when it throws
safeStat(uri, world) ==
    IF HostStat(uri, world) = Thrown THEN NullStat ELSE HostStat(uri, world)

\* (await readLineCount(uri)) ?? estimateLines(stat.size)
LineCountOrEstimate(uri, size, world) ==
    IF uri \in world.readFails THEN estimateLines(size)
    ELSE countLines(world.contents[uri])

\* the loop over the indexes of one chunk: an index whose stat is null or
\* not larger than the threshold is passed over (continue), every other one
\* sets its entry, and of two indexes with the same key the later one stays
ChunkLoop(chunk, stats, entries, thresholdBytes, world) ==
    LET passedOver(index) ==
            IF stats[index] = NullStat THEN TRUE
            ELSE stats[index].size <= thresholdBytes
        setting == {index \in 1..Len(chunk) : ~passedOver(index)}
        last == {index \in setting :
                    \A later \in setting : chunk[later] = chunk[index] => later <= index}
    IN  {e \in entries : \A index \in setting : chunk[index] # e.uri}
        \cup {[uri |-> chunk[index], size |-> stats[index].size,
               lineCount |-> LineCountOrEstimate(chunk[index], stats[index].size, world)] :
                  index \in last}

\* a scan that a rejected promise has ended
Rejected == [kind |-> "rejected"]

Resolved(entries) == [kind |-> "resolved", entries |-> entries]

\* a slice that takes all the candidates that are left
Slice_rest(candidates, i) == SubSeq(candidates, i, Len(candidates))

\* candidates.slice(i, i + chunkSize), i counted from 1
Slice(candidates, i) == SubSeq(candidates, i, Min(i + chunkSize - 1, Len(candidates)))

\* the loop over the chunks of one folder's candidates, i counted from 1;
\* Promise.all rejects when one of the stats does
RECURSIVE CandidatesLoop(_, _, _, _, _)
CandidatesLoop(candidates, i, entries, thresholdBytes, world) ==
    IF i > Len(candidates) THEN Resolved(entries)
    ELSE LET chunk == Slice(candidates, i)
             stats == [index \in 1..Len(chunk) |-> safeStat(chunk[index], world)]
         IN  IF \E index \in 1..Len(chunk) : stats[index] = Thrown THEN Rejected
             ELSE CandidatesLoop(candidates, i + chunkSize,
                                 ChunkLoop(chunk, stats, entries, thresholdBytes, world),
                                 thresholdBytes, world)

\* a filter that applies the extension check only
FilterCandidates_extensionOnly(files, exclusion, world) ==
    LET Keep(uri) == ~shouldSkipExtension(world.fsPath[uri], exclusion.excludeExtensions)
    IN  SelectSeq(files, Keep)

\* files.filter(...) on the files findFiles gave for one folder
FilterCandidates(files, exclusion, world) ==
    LET Keep(uri) ==
            IF shouldSkipExtension(world.fsPath[uri], exclusion.excludeExtensions) THEN FALSE
            ELSE IF isExplicitlyExcluded(world.fsPath[uri], exclusion) THEN FALSE
            ELSE TRUE
    IN  SelectSeq(files, Keep)

\* the loop over the workspace folders
RECURSIVE FoldersLoop(_, _, _, _, _, _)
FoldersLoop(folders, k, entries, exclusion, thresholdBytes, world) ==
    IF k > Len(folders) THEN Resolved(entries)
    ELSE LET candidates == FilterCandidates(folders[k], exclusion, world)
             scanned == CandidatesLoop(candidates, 1, entries, thresholdBytes, world)
         IN  IF scanned = Rejected THEN Rejected
             ELSE FoldersLoop(folders, k + 1, scanned.entries, exclusion, thresholdBytes,
                              world)

\* scanWorkspace in a workspace given by the files findFiles returns for
\* each of its folders
scanWorkspace(folders, exclusion, thresholdBytes, world) ==
    IF Len(folders) = 0 THEN Resolved({})
    ELSE FoldersLoop(folders, 1, {}, exclusion, thresholdBytes, world)

\* the files of the workspaces that are scanned directly
Uris == 1..54

\* the files with an excluded extension
SkippedFiles == {4}

\* the files under the excluded folder
PathExcludedFiles == {5}

\* the files that are exactly as large as the threshold
AtThresholdFiles == {3}

\* the files of 25000 bytes that hold 600 line feeds
LongFiles == {6}

LongContent == [size |-> 25000, lf |-> 600]

\* the files of 102400 bytes, which hold 3000 line feeds
LargeFiles == {53}

LargeContent == [size |-> 102400, lf |-> 3000]

\* the threshold the direct scans are run with
ScanThresholdBytes == DEFAULT_SIZE_THRESHOLD_KB * 1024

FileRange(first, last) == [n \in 1..(last - first + 1) |-> first + n - 1]

\* no folder; one folder whose 51 candidates make two chunks and a second
\* folder; one folder whose candidates make exactly one chunk
WorkspaceLayouts ==
    {<<>>, <<FileRange(1, 53), FileRange(54, 54)>>, <<FileRange(1, 52)>>}

\* the files whose stat may fail, and those whose read may fail
StatFailures == SUBSET {1, 2, 52, 53, 54}

ReadFailures == {{}, {2, 53}}

World(statFails, readFails) ==
    [fsPath |-> [uri \in Uris |-> IF uri \in SkippedFiles THEN "/w/a.json"
                                  ELSE IF uri \in PathExcludedFiles THEN "/w/x/a.ts"
                                  ELSE "/w/a.ts"],
     contents |-> [uri \in Uris |->
                      [size |-> IF uri \in AtThresholdFiles THEN ScanThresholdBytes
                                ELSE IF uri \in LongFiles THEN LongContent.size
                                ELSE IF uri \in LargeFiles THEN LargeContent.size
                                ELSE ScanThresholdBytes + uri,
                       lf |-> IF uri \in LongFiles THEN LongContent.lf
                              ELSE IF uri \in LargeFiles THEN LargeContent.lf
                              ELSE uri]],
     statFails |-> statFails,
     readFails |-> readFails]

\* the exclusion state of the direct scans: the folder /w/x is excluded
ScanExclusion == buildExclusionState(<<"/w/x">>, <<>>, readConfig)

CallScanWorkspace ==
    \E folders \in WorkspaceLayouts, statFails \in StatFailures, readFails \in ReadFailures :
        Returned([fn |-> "scanWorkspace", folders |-> folders, statFails |-> statFails,
                  readFails |-> readFails],
                 scanWorkspace(folders,
                               ScanExclusion,
                               ScanThresholdBytes,
                               World(statFails, readFails)))

\* the bytes countLines is called with: none, one letter, one line feed,
\* carriage returns before a line feed, line feeds in the middle and at the
\* end, and 25000 bytes that hold 600 line feeds
CountedData ==
    {<<>>,
     <<[byte |-> 97, count |-> 1]>>,
     <<[byte |-> LineFeed, count |-> 1]>>,
     <<[byte |-> 13, count |-> 2], [byte |-> LineFeed, count |-> 1]>>,
     <<[byte |-> 97, count |-> 3], [byte |-> LineFeed, count |-> 2],
       [byte |-> 97, count |-> 1], [byte |-> LineFeed, count |-> 1]>>,
     FileData(LongContent)}

CallCountLines ==
    \E data \in CountedData :
        Returned([fn |-> "countLines", data |-> data], countLinesOfData(data))

\* the sizes estimateLines is called with: around the halves that the
\* rounding turns on, and 100 KB
EstimatedSizes == {0, 1, 1023, 1024, 1025, 3071, 3072, 5119, 5120, 20481, 102400}

CallEstimateLines ==
    \E bytes \in EstimatedSizes :
        Returned([fn |-> "estimateLines", bytes |-> bytes], estimateLines(bytes))

\* configured values of sizeThresholdKb and sizes of one file, around the
\* thresholds of 1 KB, 2 KB and 20 KB
ConfiguredThresholds == {-5, 0, 1, 2, 20}

StatSizes == {0, 512, 1024, 1025, 2048, 2049, 20480, 20481}

\* one file of the given size under one configuration, in both paths: the
\* threshold runWorkspaceScan hands to scanWorkspace and the entries the chunk
\* loop makes of the file, and the threshold and the test of checkDocument
CallBothPaths ==
    \E kb \in ConfiguredThresholds, size \in StatSizes :
        LET config == [sizeThresholdKb |-> kb]
            stat == [kind |-> "stat", size |-> size]
        IN  Returned([fn |-> "bothPaths", kb |-> kb, size |-> size],
                     [bulk |-> ThresholdBytes(config),
                      bulkEntries |-> ChunkLoop(<<1>>, <<stat>>, {}, ThresholdBytes(config),
                                                World({}, {})),
                      incremental |-> DocumentThresholdBytes(config),
                      incrementalSets |-> ~(size <= DocumentThresholdBytes(config))])

\* persisted lists the toggles find: no two entries of one list have the same
\* normalized form on either platform
ToggledLists ==
    {<<>>, <<"/a/b">>, <<"/a/./b">>, <<"/a/b/">>, <<"/A/b">>, <<"/a/b/", "/a/./b">>,
     <<"/x", "/a/b">>}

\* the other list, which a toggle leaves alone
UntoggledLists == {<<>>, <<"/a/b">>}

\* split-or-die.toggleFolder run twice on one path
CallToggleFolderTwice ==
    \E folders \in ToggledLists, files \in UntoggledLists, target \in PathInputs :
        LET once == ToggledFolders(folders, files, target)
        IN  Returned([fn |-> "toggleFolder", folders |-> folders, files |-> files,
                      target |-> target],
                     [once |-> [folders |-> once, files |-> files],
                      twice |-> [folders |-> ToggledFolders(once, files, target),
                                 files |-> files]])

\* split-or-die.toggleFile run twice on one path
CallToggleFileTwice ==
    \E files \in ToggledLists, folders \in UntoggledLists, target \in PathInputs :
        LET once == ToggledFiles(folders, files, target)
        IN  Returned([fn |-> "toggleFile", folders |-> folders, files |-> files,
                      target |-> target],
                     [once |-> [folders |-> folders, files |-> once],
                      twice |-> [folders |-> folders,
                                 files |-> ToggledFiles(folders, once, target)]])

\* values of the setting excludeGlobs
UserGlobLists ==
    {<<>>, <<"">>, <<"*.x">>, <<"**/dist/**">>, <<" **/src/** ", "*.y">>, <<"**/w/**", "">>,
     DEFAULT_EXCLUDE_GLOBS}

\* buildExclusionState under a configured excludeGlobs, and the files that
\* scanWorkspace then takes from findFiles
CallCompileExclusion ==
    \E globs \in UserGlobLists :
        LET exclusion == buildExclusionState(<<>>, <<>>, [readConfig EXCEPT !.excludeGlobs = globs])
        IN  Returned([fn |-> "compileExclusion", globs |-> globs],
                     [excludeGlob |-> exclusion.excludeGlob,
                      candidates |-> Candidates(exclusion)])

\* the caller goes on to its next call
NextCall ==
    /\ call # NoCall
    /\ call' = NoCall
    /\ result' = Null
    /\ UNCHANGED <<platform, excludedFolders, excludedFiles, lastOp, beforeLast, scanVars>>

InitFn ==
    /\ platform \in {"posix", "win32"}
    /\ excludedFolders = <<>>
    /\ excludedFiles = <<>>
    /\ lastOp = NoOp
    /\ beforeLast = [folders |-> <<>>, files |-> <<>>]
    /\ call = NoCall
    /\ result = Null
    /\ InitScan
    /\ fs["/w/src/big.ts"].size = 20481

NextFn ==
    \/ CallIsExplicitlyExcluded
    \/ CallNormalizeFsPath
    \/ CallNormalizeExtensionInput
    \/ CallShouldSkipExtension
    \/ CallScanWorkspace
    \/ CallBuildExcludeGlob
    \/ CallNormalizeFsPathTwice
    \/ CallBuildExclusionState
    \/ CallNormalizeExtensionList
    \/ CallAddExcludedExtension
    \/ CallRemoveExcludedExtension
    \/ CallCountLines
    \/ CallEstimateLines
    \/ CallBothPaths
    \/ CallToggleFolderTwice
    \/ CallToggleFileTwice
    \/ CallCompileExclusion
    \/ NextCall

SpecFn == InitFn /\ [][NextFn]_vars

(***************************************************************************)
(* One scanWorkspace call, await by await (specification SpecBatches)      *)
(***************************************************************************)
\* The call is recorded in `call` and the scan's local state in `result`:
\* pc is the await the scan is suspended at, k the folder, i the start of
\* the chunk and index the place in it (all counted from 1), batches the
\* stat batches so far (stats issued and returned, reads to make and
\* made), statted and readFrom the files a stat or a read was issued for.
ScanWorld == World(call.statFails, call.readFails)

\* one more stat batch, with its stats issued
NewBatch(chunk) == [issued |-> Len(chunk), returned |-> 0, resolved |-> FALSE,
                    toRead |-> 0, read |-> 0]

\* the scan has left its last folder: return entries
ReturnEntries(st) == [st EXCEPT !.kind = "resolved", !.pc = "returned"]

\* the top of the loop over the folders: findFiles is awaited
EnterFolder(st, k) ==
    IF k > Len(call.folders) THEN ReturnEntries(st)
    ELSE [st EXCEPT !.pc = "findFiles", !.k = k]

\* the top of the loop over the chunks: past the last candidate the next
\* folder is entered, otherwise the stats of the chunk are issued together
EnterChunk(st, i) ==
    IF i > Len(st.candidates) THEN EnterFolder(st, st.k + 1)
    ELSE LET chunk == Slice(st.candidates, i)
         IN  [st EXCEPT !.pc = "stats", !.i = i, !.chunk = chunk,
                        !.batches = Append(@, NewBatch(chunk)),
                        !.statted = @ \cup Range(chunk)]

\* the indexes of the chunk, from index on, that are not passed over
Setting(st, index) ==
    {n \in index..Len(st.chunk) :
        IF st.stats[n] = NullStat THEN FALSE ELSE st.stats[n].size > call.thresholdBytes}

\* the loop over the indexes of the chunk runs on from index to its next
\* await, the read of an oversized file, or to the end of the chunk
ContinueChunk(st, index) ==
    IF Setting(st, index) = {} THEN EnterChunk(st, st.i + chunkSize)
    ELSE LET n == CHOOSE m \in Setting(st, index) : \A o \in Setting(st, index) : m <= o
         IN  [st EXCEPT !.pc = "readLineCount", !.index = n,
                        !.readFrom = @ \cup {st.chunk[n]}]

\* scanWorkspace is called and runs to its first await
StartScanWorkspace ==
    /\ call = NoCall
    /\ \E folders \in WorkspaceLayouts, statFails \in StatFailures, readFails \in ReadFailures :
           /\ call' = [fn |-> "scanWorkspace", folders |-> folders, statFails |-> statFails,
                       readFails |-> readFails, thresholdBytes |-> ScanThresholdBytes]
           /\ result' =
                  LET st == [kind |-> "running", pc |-> "called", k |-> 0, candidates |-> <<>>,
                             i |-> 0, chunk |-> <<>>, stats |-> <<>>, index |-> 0,
                             batches |-> <<>>, entries |-> {}, statted |-> {},
                             readFrom |-> {}]
                  IN  IF Len(folders) = 0 THEN ReturnEntries(st)
                      ELSE [st EXCEPT !.pc = "findFiles", !.k = 1]
    /\ UNCHANGED <<platform, excludedFolders, excludedFiles, lastOp, beforeLast, scanVars>>

\* the step of a suspended scan to its next state
Resume(pc, st) ==
    /\ call.fn = "scanWorkspace"
    /\ result.pc = pc
    /\ result' = st
    /\ UNCHANGED <<call, platform, excludedFolders, excludedFiles, lastOp, beforeLast,
                   scanVars>>

\* findFiles returns the files of the folder; they are filtered and the
\* stats of the first chunk are issued
FindFilesReturns ==
    Resume("findFiles",
           EnterChunk([result EXCEPT !.candidates =
                          FilterCandidates(call.folders[result.k], ScanExclusion, ScanWorld)],
                      1))

\* one of the stats in flight returns
StatReturns ==
    /\ call.fn = "scanWorkspace"
    /\ result.pc = "stats"
    /\ result.batches[Len(result.batches)].returned
           < result.batches[Len(result.batches)].issued
    /\ Resume("stats", [result EXCEPT !.batches[Len(result.batches)].returned = @ + 1])

\* Promise.all resolves with the stats of the chunk and the loop over its
\* indexes runs to its first read
StatsResolve ==
    /\ call.fn = "scanWorkspace"
    /\ result.pc = "stats"
    /\ result.batches[Len(result.batches)].returned
           = result.batches[Len(result.batches)].issued
    /\ LET stats == [index \in 1..Len(result.chunk) |->
                        safeStat(result.chunk[index], ScanWorld)]
           st == [result EXCEPT !.stats = stats]
       IN  Resume("stats",
                  ContinueChunk([st EXCEPT !.batches[Len(result.batches)].resolved = TRUE,
                                           !.batches[Len(result.batches)].toRead =
                                               Cardinality(Setting(st, 1))],
                                1))

\* readLineCount returns, the entry is set and the loop runs on
ReadReturns ==
    /\ call.fn = "scanWorkspace"
    /\ result.pc = "readLineCount"
    /\ LET uri == result.chunk[result.index]
           stat == result.stats[result.index]
           lineCount == LineCountOrEstimate(uri, stat.size, ScanWorld)
           entry == [uri |-> uri, size |-> stat.size, lineCount |-> lineCount]
       IN  Resume("readLineCount",
                  ContinueChunk([result EXCEPT
                                    !.entries = {e \in @ : e.uri # uri} \cup {entry},
                                    !.batches[Len(result.batches)].read = @ + 1],
                                result.index + 1))

\* the caller has the entries and goes on
ScanReturned ==
    /\ call.fn = "scanWorkspace"
    /\ result.pc = "returned"
    /\ NextCall

NextBatches ==
    \/ StartScanWorkspace
    \/ FindFilesReturns
    \/ StatReturns
    \/ StatsResolve
    \/ ReadReturns
    \/ ScanReturned

SpecBatches == InitFn /\ [][NextBatches]_vars

(***************************************************************************)
(* Properties of the list operations                                       *)
(***************************************************************************)
IsAdd(op) == op.kind \in {"addFolder", "addFile"}

IsRemove(op) == op.kind \in {"removeFolder", "removeFile"}

OnFolders(op) == op.kind \in {"addFolder", "removeFolder"}

\* the list an operation works on, in a [folders, files] pair
ListOf(op, lists) == IF OnFolders(op) THEN lists.folders ELSE lists.files

\* the list an operation leaves alone
OtherListOf(op, lists) == IF OnFolders(op) THEN lists.files ELSE lists.folders

\* the normalized form an operation looks for
TargetOf(op) ==
    IF IsRemove(op) THEN normalizeFsPath(resolveFsPath(op.path)) ELSE normalizeFsPath(op.path)

\* C7: path toggles are idempotent: an add whose normalized form is already in
\* the persisted list, and a remove whose normalized form is not in it, leave
\* the list as it was.
C7_ToggleIdempotent ==
    /\ (IsAdd(lastOp) /\ TargetOf(lastOp) \in NormalizedSet(ListOf(lastOp, beforeLast)))
           => Lists = beforeLast
    /\ (IsRemove(lastOp) /\ TargetOf(lastOp) \notin NormalizedSet(ListOf(lastOp, beforeLast)))
           => Lists = beforeLast

\* an add of a string that is not literally in the list, while another
\* spelling of the same normalized form is
C7_Witness ==
    /\ lastOp.kind = "addFolder"
    /\ lastOp.path \notin Range(beforeLast.folders)
    /\ TargetOf(lastOp) \in NormalizedSet(beforeLast.folders)
    /\ excludedFolders = beforeLast.folders

\* two strings that differ at most by one trailing "/"
SameUpToTrailingSeparator(a, b) == a = b \/ a = b \o "/" \/ b = a \o "/"

\* C8: removal matches by normalized form, so that a removal request for a
\* path removes every entry that differs from it only by a trailing separator
\* (/a/b/ is removed by /a/b, and /a/b by /a/b/).
C8_RemoveIgnoresTrailingSeparator ==
    IsRemove(lastOp) =>
        \A i \in 1..Len(ListOf(lastOp, Lists)) :
            ~SameUpToTrailingSeparator(ListOf(lastOp, Lists)[i], resolveFsPath(lastOp.path))

\* a step that includes again the path that the step before it excluded
IncludeAfterExclude ==
    /\ IsAdd(lastOp) /\ IsRemove(lastOp')
    /\ OnFolders(lastOp) = OnFolders(lastOp')
    /\ lastOp'.path = lastOp.path

RoundTripRestored ==
    /\ NormalizedSet(excludedFolders') = NormalizedSet(beforeLast.folders)
    /\ NormalizedSet(excludedFiles') = NormalizedSet(beforeLast.files)

\* C9 as stated: exclude(path) followed by include(path) gives back the
\* normalized folder and file sets from before the exclude, whatever the
\* starting lists.
C9_RoundTripAnyState == [][IncludeAfterExclude => RoundTripRestored]_vars

\* C9 (amended): exclude(path) followed by include(path) gives back the
\* normalized folder and file sets from before the exclude, provided the
\* normalized form of path was not already in the list the exclude works on.
C9_RoundTripWhenAbsent ==
    [][(IncludeAfterExclude /\ TargetOf(lastOp) \notin NormalizedSet(ListOf(lastOp, beforeLast)))
           => RoundTripRestored]_vars

\* an exclude of a new file next to other entries has been undone by the
\* include of the same path
C9_Witness ==
    /\ lastOp.kind = "removeFile"
    /\ Len(excludedFiles) > 0
    /\ Len(excludedFolders) > 0
    /\ Len(beforeLast.files) = Len(excludedFiles) + 1
    /\ beforeLast.files[Len(beforeLast.files)] = lastOp.path

(***************************************************************************)
(* Properties of the bulk scan and the incremental check                   *)
(***************************************************************************)
BigFile == "/w/src/big.ts"

\* run r returns in this step
Returns(r) == scans[r].pc = "ready" /\ scans'[r].pc # "ready"

\* every run has returned and no handler is still to start one
AllRunsReturned == \A r \in 1..Len(scans) : scans[r].pc \in {"done", "discarded"}

\* C1: a bulk scan run that completes when the generation token is no longer
\* its own discards its results: the step changes neither the result set nor
\* the diagnostics, and posts no state.
C1_StaleRunDiscards ==
    [][\A r \in 1..Len(scans) :
           (Returns(r) /\ r # scanToken) =>
               /\ scanEntries' = scanEntries
               /\ diagnostics' = diagnostics
               /\ posted' = FALSE]_vars

\* a superseded run has returned while the newest run is still in flight,
\* and the entry an incremental check had set is still there
C1_Witness ==
    /\ scanToken = 2
    /\ scans[1].pc = "discarded"
    /\ scans[2].pc \in {"stat", "read", "ready"}
    /\ scanEntries[BigFile] # NoEntry
    /\ diagnostics[BigFile] # NoEntry

\* C2: with overlapping bulk scans completing in any order and no incremental
\* update in between, once all of them have returned the result set is
\* exactly the entries computed by the run with the highest token.
C2_HighestTokenWins ==
    (scanToken > 0 /\ AllRunsReturned) =>
        /\ scans[scanToken].pc = "done"
        /\ scanEntries = scans[scanToken].entries
        /\ Keys(diagnostics) = Keys(scans[scanToken].entries)

\* the older of two overlapping runs has returned after the newer one
\* committed a non-empty result
C2_Witness ==
    /\ scanToken = 2
    /\ scans[1].pc = "discarded"
    /\ scans[2].pc = "done"
    /\ scans[2].entries[BigFile] # NoEntry
    /\ scanEntries = scans[2].entries

\* the entry a check writes for a document
CheckedEntry(doc) == ScanEntry(fs[doc].size, DocumentLineCount(fs[doc]))

\* C3: threshold boundary. A bulk scan's stat step reports exactly the files
\* it could stat whose size is above thresholdKb * 1024, so that a file of
\* exactly that size is never reported; a finishing incremental check leaves
\* no new entry for a size at or below the threshold and, for a larger size,
\* writes the entry unless its stat failed.
C3_ThresholdBoundary ==
    [][/\ \A r \in 1..Len(scans) :
              (scans[r].pc = "stat" /\ scans'[r].pc # "stat") =>
                  \A f \in Files :
                      /\ scans'[r].entries[f] # NoEntry
                             => (f \in scans[r].candidates
                                 /\ fs[f].size > scans[r].thresholdBytes)
                      /\ (f \in scans[r].candidates /\ fs[f].size <= scans[r].thresholdBytes)
                             => scans'[r].entries[f] = NoEntry
       /\ \A k \in CheckKeys :
              checks'[k] < checks[k] =>
                  IF fs[k[1]].size <= Max(1, k[2]) * 1024
                  THEN scanEntries'[k[1]] \in {NoEntry, scanEntries[k[1]]}
                  ELSE scanEntries'[k[1]] \in {CheckedEntry(k[1]), scanEntries[k[1]]}]_vars

\* a file one byte above the 20 KB threshold is reported by the committed
\* bulk scan, with no check in flight
C3_Witness ==
    /\ cfg.sizeThresholdKb = 20
    /\ fs[BigFile].size = 20 * 1024 + 1
    /\ scanToken = 1 /\ scans[1].pc = "done"
    /\ ChecksInFlight = 0
    /\ scanEntries[BigFile] # NoEntry /\ scanEntries[BigFile].size = 20 * 1024 + 1
    /\ diagnostics[BigFile] # NoEntry

\* the save listener runs checkDocument for doc and it returns before the stat
ReturnsBeforeStat(doc) ==
    /\ cfg.enabled /\ cfg.runOnSave
    /\ SaveDocument(doc)
    /\ checks' = checks

\* C4 as stated: every early failure of the incremental check (no owning
\* workspace root, excluded extension, excluded path, a size at or below the
\* threshold, a stat error) leaves the document without a result-set entry
\* and without a diagnostic.
C4_EarlyFailureRemovesEntry ==
    [][/\ \A doc \in Files :
              ReturnsBeforeStat(doc) =>
                  (scanEntries'[doc] = NoEntry /\ diagnostics'[doc] = NoEntry)
       /\ \A k \in CheckKeys :
              checks'[k] < checks[k] =>
                  \/ scanEntries'[k[1]] = NoEntry /\ diagnostics'[k[1]] = NoEntry
                  \/ /\ fs[k[1]].size > Max(1, k[2]) * 1024
                     /\ scanEntries'[k[1]] = CheckedEntry(k[1])]_vars

\* the save listener suspends a check of doc on its stat
SuspendsCheck(doc) ==
    \E kb \in ThresholdValues : checks'[<<doc, kb>>] > checks[<<doc, kb>>]

\* the files a bulk scan started now would stat
BulkCandidates == Candidates(buildExclusionState(excludedFolders, excludedFiles, readConfig))

\* C5 as stated: bulk/incremental consistency. Under the same file system,
\* exclusion state and threshold, the incremental check goes on to measure a
\* file of the workspace (and then reports it with the same comparison) only
\* if a bulk scan would.
C5_IncrementalAgreesWithBulk ==
    [][\A doc \in Files : (rootOpen /\ SuspendsCheck(doc)) => doc \in BulkCandidates]_vars

\* no run, no handler and no check is in flight
Quiescent == AllRunsReturned /\ PendingRuns = 0 /\ ChecksInFlight = 0

\* the exclusion state as a run started now would build it
CurrentExclusion == buildExclusionState(excludedFolders, excludedFiles, readConfig)

\* C6 as stated: once a file or an enclosing folder is excluded and every
\* operation triggered by that, and every operation that was in flight, has
\* finished, the file has no entry in the result set and no diagnostic.
C6_ExcludedFileHasNoEntry ==
    Quiescent =>
        \A f \in Files :
            isExplicitlyExcluded(f, CurrentExclusion)
                => (scanEntries[f] = NoEntry /\ diagnostics[f] = NoEntry)

(***************************************************************************)
(* Frame of the toggle operations                                          *)
(***************************************************************************)
\* a toggle handler runs up to its first await
ToggleStarts ==
    /\ posted' = FALSE
    /\ UNCHANGED <<scanToken, scans, checks, fs, rootOpen>>
    /\ \/ ExcludeFolderCommand \/ ExcludeFileCommand
       \/ IncludeFolderCommand \/ IncludeFileCommand
       \/ ToggleFolderCommand \/ ToggleFileCommand \/ ToggleExtensionCommand
       \/ RemoveFolderMessage \/ RemoveFileMessage
       \/ AddExtensionMessage \/ RemoveExtensionMessage

\* the webview's addExtension or removeExtension handler resumes
ExtensionMessageResumes ==
    \/ pending'.addExtension < pending.addExtension
    \/ pending'.removeExtension < pending.removeExtension

\* C10 as stated: a toggle operation changes only the persisted lists or the
\* configuration; no step of its handler adds, removes or changes an entry
\* of the result set or a diagnostic (the extension being enabled, so that
\* the run it starts clears nothing at its start).
C10_ToggleLeavesResults ==
    [][((ToggleStarts \/ ExtensionMessageResumes) /\ cfg.enabled)
           => (scanEntries' = scanEntries /\ diagnostics' = diagnostics)]_vars

\* C10 (amended): a toggle handler leaves the result set and the diagnostics
\* alone up to its first await, whatever it toggles; the webview's
\* addExtension and removeExtension handlers, when they resume, empty both
\* before the run they start.
C10_OnlyExtensionMessagesClear ==
    [][/\ (scanEntries' = scanEntries /\ diagnostics' = diagnostics) \/ ~ToggleStarts
       /\ ExtensionMessageResumes => (scanEntries' = EmptyMap /\ diagnostics' = EmptyMap)]_vars

\* the excludeFolder handler has stored the folder and is suspended before
\* its scan; the entry and the diagnostic of the file under it are still there
C10_Witness ==
    /\ excludedFolders = <<"/w/src">>
    /\ pending.scan = 1 /\ scanToken = 0
    /\ ChecksInFlight = 0
    /\ isExplicitlyExcluded(BigFile, CurrentExclusion)
    /\ scanEntries[BigFile] # NoEntry /\ diagnostics[BigFile] # NoEntry

(***************************************************************************)
(* Properties of the functions                                             *)
(***************************************************************************)
\* s starts with prefix followed by the platform's separator
InsideFolder(s, folder) ==
    /\ Len(s) > Len(folder)
    /\ SubSeq(s, 1, Len(folder) + 1) = folder \o PathSep

\* C11: isExcluded(path, state) is true exactly when the normalized path is
\* in the excluded-files set, or equals a member of the excluded-folders
\* set, or starts with a member followed by the path separator; so excluding
\* /root/foo excludes /root/foo and /root/foo/bar.ts but not
\* /root/foo2/bar.ts.
C11_IsExcludedCharacterised ==
    call.fn = "isExplicitlyExcluded" =>
        LET normalized == normalizeFsPath(call.filePath)
        IN  /\ result <=>
                   \/ normalized \in {normalizeFsPath(call.files[i]) : i \in 1..Len(call.files)}
                   \/ \E i \in 1..Len(call.folders) :
                          \/ normalized = normalizeFsPath(call.folders[i])
                          \/ InsideFolder(normalized, normalizeFsPath(call.folders[i]))
            /\ (call.folders = <<"/root/foo">> /\ call.files = <<>>) =>
                   /\ call.filePath \in {"/root/foo", "/root/foo/bar.ts"} => result
                   /\ call.filePath \in {"/root/foo2/bar.ts", "/root/foo/../foo2/bar.ts"}
                          => ~result

\* the sibling folder foo2 has been asked about with foo excluded, and the
\* answer was no
C11_Witness ==
    /\ call.fn = "isExplicitlyExcluded"
    /\ call.folders = <<"/root/foo">>
    /\ call.files = <<>>
    /\ call.filePath = "/root/foo2/bar.ts"
    /\ result = FALSE

\* a path string without its one trailing "/"
WithoutTrailingSeparator(s) ==
    IF Len(s) > 1 /\ Char(s, Len(s)) = "/" THEN SubSeq(s, 1, Len(s) - 1) ELSE s

\* two strings for the same location: equal up to a trailing separator and,
\* on win32, up to letter case
DenoteSameLocation(a, b) ==
    LET x == WithoutTrailingSeparator(a)
        y == WithoutTrailingSeparator(b)
    IN  x = y \/ (platform = "win32" /\ toLowerCase(x) = toLowerCase(y))

\* C12 as stated: two path strings that denote the same location and differ
\* only by a trailing separator, or on a case-insensitive platform only by
\* letter case, have the same normalized form.
C12_SameLocationSameNormalForm ==
    (call.fn = "normalizeFsPath" /\ DenoteSameLocation(call.a, call.b))
        => result[1] = result[2]

\* C13: variants of one extension that differ by letter case, one leading
\* dot or surrounding whitespace normalize to the same canonical string
\* (.LOG , log, LOG give log), and the result is null exactly when the string,
\* trimmed, stripped of one leading dot and lowercased, is empty or has a
\* character outside [a-z0-9._-].
C13_NormalizeOneExtension ==
    call.fn = "normalizeExtensionInput" =>
        LET canonical == toLowerCase(StripLeadingDot(Trim(call.value)))
            malformed ==
                \/ canonical = ""
                \/ \E i \in 1..Len(canonical) : Char(canonical, i) \notin ExtensionCharSet
        IN  /\ (result = Null) <=> malformed
            /\ ~malformed => result = canonical
            /\ call.value \in {".LOG ", "log", "LOG", " .Log\t"} => result = "log"
            /\ call.value \in {"", " ", ".", "l g", "lo*g"} => result = Null
            /\ call.value = "..log" => result = ".log"
            /\ call.value = "a_b-c.1" => result = "a_b-c.1"

\* the spelling with a dot, capitals and a trailing blank has given log
C13_Witness ==
    /\ call.fn = "normalizeExtensionInput"
    /\ call.value = ".LOG "
    /\ result = "log"

\* the name a file is matched by: the part after the last dot of its final
\* segment, lowercased, which for a dotfile is the part after its leading dot
MatchedName(filePath) ==
    LET base == toLowerCase(Basename(filePath))
        dot == LastIndexOf(base, ".")
    IN  IF dot = 0 THEN "" ELSE SubSeq(base, dot + 1, Len(base))

\* C14 as stated: a file is matched by the extension of its final path
\* segment, compared case-insensitively, and a dotfile with no extension by
\* the part after its dot: it is skipped exactly when that name is in the
\* excluded extension set.
C14_MatchesExtensionOrDotfile ==
    call.fn = "shouldSkipExtension" =>
        (result <=> MatchedName(call.filePath) \in call.excluded)

(***************************************************************************)
(* Properties of the commit, the error paths and the token                 *)
(***************************************************************************)
\* C15: when a bulk scan with the current generation commits, the result
\* set and the diagnostics are replaced as a whole: afterwards they hold
\* exactly the entries the scan returned, and nothing from before the commit
\* survives unless the scan returned it.
C15_CommitReplacesEverything ==
    [][\A r \in 1..Len(scans) :
           (Returns(r) /\ r = scanToken) =>
               /\ scanEntries' = scans[r].entries
               /\ \A f \in Files :
                      diagnostics'[f] =
                          IF scans[r].entries[f] = NoEntry THEN NoEntry
                          ELSE createDiagnostic(scans[r].entries[f].size,
                                                scans[r].entries[f].lineCount)]_vars

\* the second run has just committed a result with the oversized file,
\* and the file behind the default glob, which only a save can add, has no
\* entry and no diagnostic
C15_Witness ==
    /\ scanToken = 2
    /\ scans[2].pc = "done"
    /\ posted
    /\ scans[2].entries[BigFile] # NoEntry
    /\ scanEntries = scans[2].entries
    /\ Keys(diagnostics) = {BigFile}

\* the files findFiles returns in the folders of a direct scan
RECURSIVE FilesOf(_)
FilesOf(folders) ==
    IF folders = <<>> THEN {} ELSE Range(Head(folders)) \cup FilesOf(Tail(folders))

\* C16: in a bulk scan a file whose stat fails is skipped and raises no
\* error: the scan returns normally, the file has no entry, and every other
\* candidate, in the same batch, in later batches and in later folders, is
\* evaluated, so that each one that is larger than the threshold has its
\* entry.
C16_StatFailureIsSkipped ==
    call.fn = "scanWorkspace" =>
        /\ result.kind = "resolved"
        /\ {e.uri : e \in result.entries} =
              {uri \in FilesOf(call.folders) \ call.statFails :
                  /\ uri \notin SkippedFiles \cup PathExcludedFiles
                  /\ World({}, {}).contents[uri].size > ScanThresholdBytes}
        /\ \A e \in result.entries : e.size = World({}, {}).contents[e.uri].size

\* the stat of the first file failed, and the scan returned entries for the
\* next file of the same batch, for a file of the second batch and for the
\* file of the second folder
C16_Witness ==
    /\ call.fn = "scanWorkspace"
    /\ Len(call.folders) = 2
    /\ call.statFails = {1}
    /\ result.kind = "resolved"
    /\ {2, 53, 54} \subseteq {e.uri : e \in result.entries}
    /\ 1 \notin {e.uri : e \in result.entries}

\* the extension strings of the webview that normalizeExtensionInput rejects:
\* empty once trimmed and stripped of the dot, or with another character
MalformedExtensionInputs == {v \in ExtensionInputs : normalizeExtensionInput(v) = Null}

\* C17: a malformed extension string given to addExtension or to
\* removeExtension is rejected without any mutation: the configured
\* settings, the result set, the diagnostics and the generation token are
\* unchanged, no scan is started and none is left to be started.
C17_MalformedExtensionRejected ==
    [][\A v \in MalformedExtensionInputs :
           \/ UNCHANGED <<cfg, scanEntries, diagnostics, scanToken, scans, pending,
                          excludedFolders, excludedFiles>>
           \/ ~(AddExtensionWith(v) \/ RemoveExtensionWith(v))]_vars

\* a scan has committed an entry and posted it, and the next event, which
\* left everything but the posted flag as it was, can have been a rejected
\* extension message: nothing is suspended and no run is under way
C17_Witness ==
    /\ MalformedExtensionInputs = {"t s", " ."}
    /\ ~posted
    /\ scanToken = 1
    /\ scans[1].pc = "done"
    /\ scanEntries[BigFile] # NoEntry
    /\ diagnostics[BigFile] # NoEntry
    /\ PendingRuns = 0
    /\ ChecksInFlight = 0
    /\ rootOpen
    /\ cfg.excludeExtensions = DEFAULT_EXCLUDE_EXTENSIONS
    /\ cfg.sizeThresholdKb = DEFAULT_SIZE_THRESHOLD_KB
    /\ excludedFolders = <<>>
    /\ excludedFiles = <<>>

\* C18: with no workspace folder open a bulk scan returns an empty result
\* set without error (the run of an enabled extension that starts then has
\* its empty result at once and no file to look at), and the commit of an
\* empty result leaves the result set and the diagnostics empty.
C18_NoFolderEmptyResult ==
    [][/\ (scanToken' = scanToken + 1 /\ ~rootOpen /\ cfg.enabled) =>
              /\ scans'[scanToken'].pc = "ready"
              /\ scans'[scanToken'].candidates = {}
              /\ scans'[scanToken'].entries = EmptyMap
       /\ \A r \in 1..Len(scans) :
              (Returns(r) /\ r = scanToken /\ scans[r].entries = EmptyMap) =>
                  (scanEntries' = EmptyMap /\ diagnostics' = EmptyMap)]_vars

\* no folder is open, and the first run, which nothing was excluded from and
\* which an open folder would have given the oversized file, has committed
\* its empty result and posted it
C18_Witness ==
    /\ ~rootOpen
    /\ scanToken = 1
    /\ scans[1].pc = "done"
    /\ posted
    /\ PendingRuns = 0
    /\ ChecksInFlight = 0
    /\ scanEntries = EmptyMap
    /\ diagnostics = EmptyMap
    /\ cfg.enabled
    /\ cfg.excludeExtensions = DEFAULT_EXCLUDE_EXTENSIONS
    /\ cfg.sizeThresholdKb = DEFAULT_SIZE_THRESHOLD_KB
    /\ excludedFolders = <<>>
    /\ excludedFiles = <<>>
    /\ fs[BigFile].size > ThresholdBytes(readConfig)

\* C19: in every state between the synchronous steps of the handlers the
\* files that carry a diagnostic are the keys of the result set, and each
\* of them carries the one warning built from the size and the line count
\* of its entry.
C19_DiagnosticsMirrorResultSet ==
    /\ Keys(diagnostics) = Keys(scanEntries)
    /\ \A f \in Keys(scanEntries) :
           diagnostics[f] = createDiagnostic(scanEntries[f].size, scanEntries[f].lineCount)

\* both files have an entry and a diagnostic: the one a bulk scan finds and
\* the one that only a save can add
C19_Witness ==
    /\ Keys(scanEntries) = Files
    /\ Keys(diagnostics) = Files
    /\ scanToken = 1
    /\ scans[1].pc = "done"

\* the steps in which runWorkspaceScan is called
CallsRunWorkspaceScan ==
    \/ ScanCommand
    \/ StartPendingScan
    \/ AddExtensionContinue
    \/ RemoveExtensionContinue
    \/ UpdateThresholdContinue

\* C20: the generation token never decreases: every call of
\* runWorkspaceScan, also one that finds the extension disabled, increases
\* it by exactly one in the step of the call, so that the runs have the
\* ids 1, 2, ... and no two share one, and no other step changes it.
C20_TokenCountsRuns ==
    [][/\ scanToken' = scanToken \/ scanToken' = scanToken + 1
       /\ Len(scans') = scanToken'
       /\ (scanToken' = scanToken + 1) <=> CallsRunWorkspaceScan]_vars

\* the second run found the extension disabled and returned while the first
\* is still waiting for its files: they have the ids 1 and 2
C20_Witness ==
    /\ scanToken = 2
    /\ Len(scans) = 2
    /\ ~cfg.enabled
    /\ scans[1].pc = "find"
    /\ scans[2].pc = "done"
    /\ posted

(***************************************************************************)
(* Properties of the interleaving of checks and scans                      *)
(***************************************************************************)
\* a bulk scan that has not returned yet
InFlight(r) == scans[r].pc \in {"find", "stat", "read", "ready"}

\* C21: an incremental update is not generation-guarded.  The step in which
\* the stat of a check returns leaves the token and every run as they are;
\* with a run in flight a check of an oversized file can still write its
\* entry; and the run that was in flight, still current, commits afterwards
\* and leaves for every file what it returned itself, the update's entry
\* being overwritten.
C21_UpdateNotGenerationGuarded ==
    [][/\ \A k \in CheckKeys :
              checks'[k] < checks[k] => (scanToken' = scanToken /\ scans' = scans)
       /\ \A k \in CheckKeys :
              (/\ checks[k] > 0
               /\ fs[k[1]].size > Max(1, k[2]) * 1024
               /\ \E r \in 1..Len(scans) : InFlight(r))
                  => ENABLED (/\ CheckStat(k[1], k[2])
                              /\ scanEntries'[k[1]] = CheckedEntry(k[1]))
       /\ \A r \in 1..Len(scans) :
              (Returns(r) /\ r = scanToken) =>
                  \A f \in Files :
                      scanEntries[f] # scans[r].entries[f] =>
                          scanEntries'[f] = scans[r].entries[f]]_vars

\* the only run is still in flight and could not stat the oversized file;
\* a check has written that file's entry meanwhile and posted it, and the
\* run's commit is about to remove it
C21_Witness ==
    /\ scanToken = 1
    /\ scans[1].pc = "ready"
    /\ scans[1].entries[BigFile] = NoEntry
    /\ scanEntries[BigFile] = CheckedEntry(BigFile)
    /\ posted
    /\ ChecksInFlight = 0
    /\ rootOpen
    /\ PendingRuns = 0

\* the step changes the result set or the diagnostics
MutatesResults == scanEntries' # scanEntries \/ diagnostics' # diagnostics

RECURSIVE StatsInFlight(_)
StatsInFlight(batches) ==
    IF batches = <<>> THEN 0
    ELSE Head(batches).issued - Head(batches).returned + StatsInFlight(Tail(batches))

\* every stat of the batch has returned and the line counts of its oversized
\* files have been read
BatchFinished(batch) ==
    /\ batch.returned = batch.issued
    /\ batch.resolved
    /\ batch.read = batch.toRead

\* C23: within one bulk scan at most 50 stats are in flight at any time,
\* and when the stats of a batch are issued every stat of each earlier batch
\* has returned and the line counts of its oversized files have been read.
C23_BatchesOfFifty ==
    call.fn = "scanWorkspace" =>
        /\ StatsInFlight(result.batches) <= chunkSize
        /\ \A b \in 1..Len(result.batches) :
               /\ result.batches[b].issued <= chunkSize
               /\ b < Len(result.batches) => BatchFinished(result.batches[b])

\* the stat of the 51st candidate is in flight: the first batch had 50
\* stats, they have all returned and its oversized files have been read
C23_Witness ==
    /\ call.fn = "scanWorkspace"
    /\ result.pc = "stats"
    /\ Len(result.batches) = 2
    /\ result.batches[1].issued = chunkSize
    /\ result.batches[1].toRead > 40
    /\ BatchFinished(result.batches[1])
    /\ result.batches[2].issued = 1
    /\ result.batches[2].returned = 0

\* the scan, await by await, returns what scanWorkspace returns
StepsAgreeWithScanWorkspace ==
    (call.fn = "scanWorkspace" /\ result.pc = "returned") =>
        result.entries =
            scanWorkspace(call.folders, ScanExclusion, call.thresholdBytes, ScanWorld).entries

\* the enumerated files that the extension check or the exclusion predicate
\* rejects
OutOfScope ==
    {uri \in FilesOf(call.folders) :
        \/ shouldSkipExtension(ScanWorld.fsPath[uri], ScanExclusion.excludeExtensions)
        \/ isExplicitlyExcluded(ScanWorld.fsPath[uri], ScanExclusion)}

\* C24: in a bulk scan the extension check and the exclusion predicate are
\* both applied before any I/O, and each on its own drops a file: no stat
\* is ever issued for an enumerated file that is extension-excluded or
\* path-excluded, a read is issued only for a file that had its stat, and
\* the result holds only files that were read, so that no such file is in
\* it.  The scan starts with no stat, no read and no entry.
C24_OutOfScopeFilesCostNoIO ==
    [][/\ (call.fn = "scanWorkspace" /\ call' = call) =>
              /\ \A uri \in result'.statted \ result.statted :
                     /\ ~shouldSkipExtension(ScanWorld.fsPath[uri],
                                             ScanExclusion.excludeExtensions)
                     /\ ~isExplicitlyExcluded(ScanWorld.fsPath[uri], ScanExclusion)
              /\ result'.readFrom \subseteq result'.statted
              /\ {e.uri : e \in result'.entries} \subseteq result'.readFrom
       /\ (call.fn # "scanWorkspace" /\ call'.fn = "scanWorkspace") =>
              /\ result'.statted = {}
              /\ result'.readFrom = {}
              /\ result'.entries = {}]_vars

\* a scan of two folders has returned: the file with the excluded extension
\* and the file under the excluded folder were enumerated, and every other
\* file had its stat, and the oversized ones their read
C24_Witness ==
    /\ call.fn = "scanWorkspace"
    /\ result.pc = "returned"
    /\ Len(call.folders) = 2
    /\ call.statFails = {}
    /\ OutOfScope = SkippedFiles \cup PathExcludedFiles
    /\ result.statted = FilesOf(call.folders) \ OutOfScope
    /\ result.readFrom = result.statted \ AtThresholdFiles
    /\ result.readFrom = {e.uri : e \in result.entries}

(***************************************************************************)
(* Properties of the compiled glob, the paths and the extension lists      *)
(***************************************************************************)
\* the places of the patterns that stay: not empty once trimmed, and not
\* the trimmed pattern of an earlier place
KeptPlaces(patterns) ==
    {i \in 1..Len(patterns) :
        /\ Trim(patterns[i]) # ""
        /\ \A j \in 1..(i - 1) : Trim(patterns[j]) # Trim(patterns[i])}

\* the trimmed patterns of the kept places from place i on, with commas
RECURSIVE Alternatives(_, _)
Alternatives(patterns, i) ==
    IF i > Len(patterns) THEN ""
    ELSE IF i \notin KeptPlaces(patterns) THEN Alternatives(patterns, i + 1)
    ELSE IF \E j \in KeptPlaces(patterns) : j > i
    THEN Trim(patterns[i]) \o "," \o Alternatives(patterns, i + 1)
    ELSE Trim(patterns[i])

\* C25: glob compilation.  The patterns are the default globs followed by
\* the configured ones, each trimmed, the empty ones dropped and duplicates
\* removed with the first occurrence and its place kept; no pattern left
\* gives undefined, one gives that pattern as it is, two or more give
\* {p1,p2,...} in that order.
C25_GlobCompilation ==
    call.fn = "buildExcludeGlob" =>
        LET patterns == call.defaults \o call.configured
            kept == KeptPlaces(patterns)
        IN  IF kept = {} THEN result = Undefined
            ELSE IF Cardinality(kept) = 1 THEN \A i \in kept : result = Trim(patterns[i])
            ELSE result = "{" \o Alternatives(patterns, 1) \o "}"

\* two default globs and four configured ones, of which one repeats a
\* default, one is empty and one comes twice, compile to three alternatives
C25_Witness ==
    /\ call.fn = "buildExcludeGlob"
    /\ call.defaults = <<"**/d/**", "**/e/**">>
    /\ call.configured = <<" *.x", "**/d/**", "", "*.x">>
    /\ result = "{**/d/**,**/e/**,*.x}"

\* C26: path normalization is idempotent: for every path p,
\* normalize(normalize(p)) = normalize(p), where file names are case
\* sensitive and where they are not.
C26_NormalizeIdempotent ==
    call.fn = "normalizeFsPathTwice" => result.twice = result.once

\* where case is ignored a path with a dot-dot segment and capitals has a
\* normal form that normalizing leaves as it is
C26_Witness ==
    /\ call.fn = "normalizeFsPathTwice"
    /\ platform = "win32"
    /\ call.fsPath = "/A/b/../C"
    /\ result.once = "\\a\\c"
    /\ result.twice = "\\a\\c"

\* C27: every member of the extension set that an ExclusionState is built
\* with is a non-empty lowercase string without a leading dot that has only
\* characters of [a-z0-9._-], and is what a configured entry normalizes to;
\* the entries that do not normalize to such a string are not in the set.
C27_ExtensionSetWellFormed ==
    call.fn = "buildExclusionState" =>
        \A e \in result :
            /\ Len(e) > 0
            /\ toLowerCase(e) = e
            /\ Char(e, 1) # "."
            /\ \A i \in 1..Len(e) : Char(e, i) \in ExtensionCharSet
            /\ \E i \in 1..Len(call.extensions) :
                   normalizeExtensionInput(call.extensions[i]) = e

\* the list is ascending without duplicates
StrictlyAscending(list) == \A i \in 1..(Len(list) - 1) : StringLess(list[i], list[i + 1])

\* C28: normalizeExtensionList returns a list without duplicates in
\* ascending lexicographic order, and the list depends only on the set of
\* the normalized inputs, not on their order or on how often they occur.
C28_ListSortedAndCanonical ==
    call.fn = "normalizeExtensionList" =>
        /\ StrictlyAscending(result.a)
        /\ Range(result.a) = normalizeExtensions(call.a)
        /\ normalizeExtensions(call.a) = normalizeExtensions(call.b) => result.a = result.b

\* two lists with the same extensions in another order, spelling and
\* number give the same ascending list
C28_Witness ==
    /\ call.fn = "normalizeExtensionList"
    /\ call.a = <<"B", ".a", "b ">>
    /\ call.b = <<"a", "b", "a">>
    /\ result.a = <<"a", "b">>
    /\ result.b = <<"a", "b">>

\* C29: the extension toggles are idempotent set operations on the
\* configured list.  Adding an extension that is in the normalized list
\* updates nothing; removing one that is not in it leaves the set of the
\* configured extensions as it was, and removing one that is in it takes
\* out that one; after an add that stores, the stored list is ascending
\* without duplicates and holds the old extensions and the new one.
C29_ExtensionTogglesIdempotent ==
    /\ call.fn = "addExcludedExtension" =>
           LET normalized == normalizeExtensionInput(call.value)
               before == normalizeExtensions(call.stored)
           IN  /\ normalized \in before => ~result.updated
               /\ result.updated =>
                      /\ normalized # Null
                      /\ StrictlyAscending(result.stored)
                      /\ Range(result.stored) = before \cup {normalized}
    /\ call.fn = "removeExcludedExtension" =>
           LET normalized == normalizeExtensionInput(call.value)
               before == normalizeExtensions(call.stored)
           IN  normalizeExtensions(result.stored) = before \ {normalized}

\* how many of the bytes are line feeds
LineFeedsIn(data) ==
    SumOver([n \in DOMAIN data |-> data[n].count],
            {n \in DOMAIN data : data[n].byte = LineFeed})

\* C30: the line count of file content is 0 for empty content and otherwise
\* the number of line-feed bytes (value 10) plus one, and the bulk scan stores
\* this count in the entry of every oversized file whose content could be
\* read: the file of 25000 bytes that hold 600 line feeds is reported with
\* line count 601 under a threshold of 20 KB.
C30_LineCountIsLineFeedsPlusOne ==
    /\ call.fn = "countLines" =>
          /\ result = IF call.data = <<>> THEN 0 ELSE LineFeedsIn(call.data) + 1
          /\ call.data = FileData(LongContent) => result = 601
    /\ call.fn = "scanWorkspace" =>
          /\ result.kind = "resolved"
          /\ \A e \in result.entries :
                e.uri \notin call.readFails =>
                    /\ e.lineCount = World({}, {}).contents[e.uri].lf + 1
                    /\ e.uri \in LongFiles =>
                          /\ e.size = 25000
                          /\ e.size > 20 * 1024
                          /\ e.lineCount = 601

\* a scan in which two reads failed has returned the entry of the file of
\* 25000 bytes with line count 601
C30_Witness ==
    /\ call.fn = "scanWorkspace"
    /\ call.readFails = {2, 53}
    /\ result.kind = "resolved"
    /\ \E e \in result.entries :
          e.uri \in LongFiles /\ e.size = 25000 /\ e.lineCount = 601

\* Math.round(bytes / 2048): the whole number nearest to the quotient, the
\* upper one of the two when the quotient lies half way between them
NearestWhole(bytes) ==
    CHOOSE r \in 0..(bytes \div 2048 + 1) :
        2048 * r - 1024 <= bytes /\ bytes < 2048 * r + 1024

\* max(1, round((sizeBytes / 1024 * 25) / 50) * 50)
EstimateOf(sizeBytes) ==
    IF NearestWhole(sizeBytes) = 0 THEN 1 ELSE NearestWhole(sizeBytes) * 50

\* C31: an oversized file whose content cannot be read during a bulk scan is
\* still reported, with the estimated line count
\* max(1, round((sizeBytes / 1024 * 25) / 50) * 50), which is 2500 for a
\* size of 102400 bytes.
C31_UnreadableFileIsEstimated ==
    /\ call.fn = "estimateLines" =>
          /\ result = EstimateOf(call.bytes)
          /\ call.bytes = 102400 => result = 2500
    /\ call.fn = "scanWorkspace" =>
          /\ result.kind = "resolved"
          /\ \A uri \in FilesOf(call.folders) \cap call.readFails :
                (/\ uri \notin call.statFails
                 /\ World({}, {}).contents[uri].size > ScanThresholdBytes) =>
                    \E e \in result.entries :
                        /\ e.uri = uri
                        /\ e.size = World({}, {}).contents[uri].size
                        /\ e.lineCount = EstimateOf(e.size)
                        /\ uri \in LargeFiles => e.lineCount = 2500

\* a scan could not read the file of 102400 bytes and 3001 lines, and has
\* returned its entry with line count 2500
C31_Witness ==
    /\ call.fn = "scanWorkspace"
    /\ call.readFails = {2, 53}
    /\ result.kind = "resolved"
    /\ \E e \in result.entries :
          e.uri \in LargeFiles /\ e.size = 102400 /\ e.lineCount = 2500

\* C32: the byte threshold is max(1, thresholdKb) * 1024 in the bulk scan and
\* in the incremental check alike, so for one configuration both paths have
\* the same threshold and report the same files, and the threshold is never
\* below 1024, also when the configured value is 0 or negative.
C32_SameThresholdInBothPaths ==
    call.fn = "bothPaths" =>
        LET bytes == IF call.kb < 1 THEN 1024 ELSE call.kb * 1024
        IN  /\ result.bulk = bytes
            /\ result.incremental = bytes
            /\ result.bulk >= 1024
            /\ (result.bulkEntries # {}) = (call.size > bytes)
            /\ result.incrementalSets = (call.size > bytes)

\* with a configured value of 0 both paths have the threshold 1024: neither
\* reports a file of 1024 bytes
C32_Witness ==
    /\ call.fn = "bothPaths"
    /\ call.kb = 0
    /\ call.size = 1024
    /\ result.bulk = 1024
    /\ result.incremental = 1024
    /\ result.bulkEntries = {}
    /\ ~result.incrementalSets

\* run r is suspended at one of its awaits
Awaiting(r) == r \in DOMAIN scans /\ scans[r].pc \in {"find", "stat", "read", "ready"}

\* run r has committed: it has cleared the result set, or replaced it
Committed(r) == r \in DOMAIN scans /\ scans[r].pc = "done"

\* C33: provided every enumerate, stat and read call returns in the end, the
\* most recently started bulk scan completes and commits in the end (it
\* replaces the result set with its results, or clears it when the extension
\* is disabled), whatever scans, saves, toggles and configuration changes came
\* before; and no bulk scan waits on another one: a suspended run can always
\* take its next step.
C33_LatestScanCommits ==
    /\ [](\A r \in 1..MaxScans : Awaiting(r) => ENABLED ScanStep(r))
    /\ \A r \in 1..MaxScans : (scanToken = r) ~> (scanToken > r \/ Committed(r))

\* the second run has committed its entry while the first one, superseded,
\* is still waiting for its stats
C33_Witness ==
    /\ scanToken = 2
    /\ Committed(2)
    /\ Awaiting(1)
    /\ Keys(scanEntries) = {BigFile}

\* C34: when the extension is disabled, the run that the change triggers
\* clears the result set and the diagnostics and takes a new token, which
\* supersedes every run in flight; and once every operation in flight has
\* finished, the result set and the diagnostics are empty for as long as the
\* extension stays disabled.
C34_DisabledStaysEmpty ==
    /\ [][(CallsRunWorkspaceScan /\ ~cfg.enabled) =>
              /\ scanEntries' = EmptyMap /\ diagnostics' = EmptyMap
              /\ scanToken' = scanToken + 1
              /\ \A r \in DOMAIN scans : r # scanToken']_vars
    /\ []((Quiescent /\ ~cfg.enabled) =>
              (scanEntries = EmptyMap /\ diagnostics = EmptyMap))

\* C35: a save event received while enable is false or runOnSave is false
\* changes nothing: the result set, the diagnostics and the generation token
\* stay as they are, no stat is issued, no run starts and nothing is posted.
C35_SaveIgnoredWhenOff ==
    [][((~cfg.enabled \/ ~cfg.runOnSave) /\ \E doc \in Docs : SaveDocument(doc)) =>
           /\ scanEntries' = scanEntries
           /\ diagnostics' = diagnostics
           /\ scanToken' = scanToken
           /\ checks' = checks
           /\ scans' = scans
           /\ ~posted']_vars

\* runOnSave is off, and the file that the run reported with 20481 bytes has
\* since been saved with 20480: its entry is as the run left it, and no
\* check is in flight
C35_Witness ==
    /\ cfg.enabled /\ ~cfg.runOnSave
    /\ scanToken = 1
    /\ PendingRuns = 0
    /\ ChecksInFlight = 0
    /\ scans[1].pc = "done"
    /\ scanEntries[BigFile] # NoEntry
    /\ scanEntries[BigFile].size = 20481
    /\ fs[BigFile].size = 20480

\* C36: whenever no run, no handler and no incremental check is in flight,
\* every entry of the result set has a size strictly greater than the
\* current byte threshold max(1, thresholdKb) * 1024, whatever threshold
\* changes, saves and scans came before.
C36_EntriesAboveCurrentThreshold ==
    Quiescent =>
        \A f \in Keys(scanEntries) : scanEntries[f].size > ThresholdBytes(readConfig)

\* C37: starting from empty persisted lists, under any sequence of add and
\* remove operations the persisted excluded-folder list and excluded-file
\* list never hold two entries with the same normalized form, so the
\* normalized set built from a list has as many members as the list has
\* entries.
C37_NoTwoEntriesSameNormalForm ==
    /\ \A i, j \in DOMAIN excludedFolders :
          normalizeFsPath(excludedFolders[i]) = normalizeFsPath(excludedFolders[j]) => i = j
    /\ \A i, j \in DOMAIN excludedFiles :
          normalizeFsPath(excludedFiles[i]) = normalizeFsPath(excludedFiles[j]) => i = j
    /\ Cardinality(NormalizedSet(excludedFolders)) = Len(excludedFolders)
    /\ Cardinality(NormalizedSet(excludedFiles)) = Len(excludedFiles)

\* on win32 the folder list holds /a/b and /a/b/, and the add of /A/b, which
\* has the normalized form of the first, has left it so
C37_Witness ==
    /\ platform = "win32"
    /\ lastOp = [kind |-> "addFolder", path |-> "/A/b"]
    /\ excludedFolders = <<"/a/b", "/a/b/">>
    /\ beforeLast.folders = excludedFolders
    /\ Cardinality(NormalizedSet(excludedFolders)) = 2

\* the normalized excluded-folder set and excluded-file set of a pair of lists
NormalizedSets(lists) ==
    [folders |-> NormalizedSet(lists.folders), files |-> NormalizedSet(lists.files)]

\* C38: the toggle-folder and toggle-file commands are involutions on the
\* normalized exclusion sets: the same toggle run twice on the same path, with
\* no other toggle in between, leaves the normalized excluded-folder set and
\* excluded-file set as they were before the first one, whether or not the
\* path was excluded at the start; the first toggle changes the set it works
\* on by exactly the normalized form of the path.
C38_ToggleTwiceRestores ==
    call.fn \in {"toggleFolder", "toggleFile"} =>
        LET before == NormalizedSets([folders |-> call.folders, files |-> call.files])
            once == NormalizedSets(result.once)
            target == normalizeFsPath(call.target)
            Flipped(set) == IF target \in set THEN set \ {target} ELSE set \cup {target}
        IN  /\ NormalizedSets(result.twice) = before
            /\ call.fn = "toggleFolder" =>
                  (once.folders = Flipped(before.folders) /\ once.files = before.files)
            /\ call.fn = "toggleFile" =>
                  (once.files = Flipped(before.files) /\ once.folders = before.folders)

\* the folder list held /a/./b: the first toggle of /a/b took it out and the
\* second one stored /a/b, which has the same normalized form
C38_Witness ==
    /\ call.fn = "toggleFolder"
    /\ platform = "posix"
    /\ call.folders = <<"/a/./b">>
    /\ call.target = "/a/b"
    /\ result.once.folders = <<>>
    /\ result.twice.folders = <<"/a/b">>

\* the folder names above a file, as they stand in its path
UnderFolder(fsPath, name) == Contains(fsPath, "/" \o name \o "/")

\* C39: every default ignore pattern, **/name/** for each default excluded
\* folder, is part of the compiled glob of every exclusion state whatever the
\* user configures, so the compiled glob is never absent and the bulk scan
\* never takes up a file under a default-ignored folder.
C39_DefaultGlobsAlwaysCompiled ==
    call.fn = "compileExclusion" =>
        /\ result.excludeGlob # Undefined
        /\ StartsWith(result.excludeGlob,
                      "{" \o JoinSegments(DEFAULT_EXCLUDE_GLOBS, ",") \o
                          (IF Len(result.excludeGlob) = Len(CompiledExcludeGlob) THEN "}" ELSE ","))
        /\ Char(result.excludeGlob, Len(result.excludeGlob)) = "}"
        /\ \A i \in DOMAIN DEFAULT_EXCLUDE_FOLDERS :
              /\ DEFAULT_EXCLUDE_GLOBS[i] = "**/" \o DEFAULT_EXCLUDE_FOLDERS[i] \o "/**"
              /\ \A f \in result.candidates : ~UnderFolder(f, DEFAULT_EXCLUDE_FOLDERS[i])

\* the setting excludeGlobs is the empty list: the glob is the group of the
\* nine default patterns, and the file under dist is not a candidate
C39_Witness ==
    /\ call.fn = "compileExclusion"
    /\ call.globs = <<>>
    /\ result.excludeGlob = CompiledExcludeGlob
    /\ result.candidates = {"/w/src/big.ts"}

\* C40: single-extension normalization is idempotent: for every input x for
\* which normalizeExtensionInput(x) is a string s, normalizeExtensionInput(s)
\* is s.
C40_NormalizeExtensionIdempotent ==
    (call.fn = "normalizeExtensionInput" /\ result # Null) =>
        normalizeExtensionInput(result) = result

====
